---- MODULE Spec2Model ----
(***************************************************************************)
(* doni: reconciliation of a hardware registry against external services.  *)
(*                                                                         *)
(* The module holds state machines over disjoint variables:                *)
(*   - the Worker Manager and its Task Store (SpecManager),                *)
(*   - the provisioning integration, driver/worker/ironic.py (SpecIronic), *)
(*   - the reservation integration, driver/worker/blazar/__init__.py       *)
(*     (SpecBlazar),                                                       *)
(*   - the tunnel integration, driver/worker/tunelo.py (SpecTunelo),       *)
(*   - the cluster-node integration, driver/worker/k8s.py (SpecK8s),       *)
(*   - the import command, cmd/import.py (SpecCommand).                    *)
(* Each specification leaves the variables of the other machines alone.    *)
(***************************************************************************)
EXTENDS Integers, Sequences, FiniteSets, TLC

(***************************************************************************)
(* Bounds of the model.                                                    *)
(***************************************************************************)
MaxVersion == 2

None == "none"

(***************************************************************************)
(* PART 1.  Worker Manager and Task Store.                                 *)
(* doni/worker/manager.py and doni/objects/worker_task.py are not part of  *)
(* the source tree at hand; this part follows spec.md sections 3, 4.1, 5   *)
(* and 6 and the expectations of tests/unit/worker/test_manager.py.        *)
(***************************************************************************)
VARIABLES
    registry,      \* set of resources that exist in the Resource Registry
    enabled,       \* worker names currently registered and enabled
    taskStore,     \* the Task Store: a set of Task records
    mpc,           \* per Manager instance: "idle", "batch" or "invoke"
    mbatch,        \* per Manager: Task snapshots of this cycle still to process
    mcur,          \* per Manager: working copy of the Task being processed
    mexpect,       \* per Manager: version its next UpsertTask expects
    mdue,          \* per Manager: keys of the Tasks due when its cycle began
    mcalls,        \* per Manager: _processTask invocations of this cycle, by key
    mout,          \* per Manager: what Worker.Process came to for mcur
    mclean,        \* per Manager: cycle so far saw only applied Success results
    raceLost,      \* some UpsertTask was refused because the version had moved
    windows,       \* the ReservationWindows the Registry holds
    mpassed        \* per Manager: the arguments of the Worker.Process call in hand

mvars == <<registry, enabled, taskStore, mpc, mbatch, mcur, mexpect,
           mdue, mcalls, mout, mclean, raceLost, windows, mpassed>>

\* The provisioning integration (PART 2).
VARIABLES
    ihw,        \* the Hardware passed to process: name, driver_info, interfaces, deleted
    iclock,     \* what the clock reads at the first turn of a poll loop
    inode,      \* the node held by Ironic
    iports,     \* the ports held by Ironic for the node
    ipc,        \* position of IronicWorker.process
    itarget,    \* wait_for_provision_state: target_state
    iret,       \* wait_for_provision_state: where its caller goes on
    ielapsed,   \* _wait_for_provision_state: perf_counter() - start_time
    ipatch,     \* _do_node_update: the patch computed
    itodo,      \* _do_port_updates: ifaces_to_add, _to_update, _to_remove left
    ineeds,     \* _do_port_updates: needs_managable
    icalls,     \* requests sent to Ironic by this invocation, in order
    iresult,    \* what process returned or raised
    ifaults,    \* the error statuses Ironic has answered with, in order
    itimedout   \* IronicNodeProvisionStateTimeout was raised in this invocation

ivars == <<ihw, iclock, inode, iports, ipc, itarget, iret, ielapsed, ipatch, itodo,
           ineeds, icalls, iresult, ifaults, itimedout>>

\* The reservation integration (PART 3).
VARIABLES
    bhw,        \* the Hardware passed to process: uuid, deleted, properties
    bwindows,   \* its availability windows, as a list
    bdetails,   \* state_details of the Task: every payload so far merged in
    bhosts,     \* the resources held by Blazar
    bleases,    \* the leases held by Blazar
    bnow,       \* datetime.now, in half minutes
    bpc,        \* position of BaseBlazarWorker.process
    bresres,    \* process: the result of the resource step
    bcheck,     \* process_availability_windows: leases_to_check
    bleft,      \* process_availability_windows: windows still to go through
    bdeferred,  \* process_availability_windows: some lease result is a Defer
    bcalls,     \* requests sent to Blazar by this invocation, in order
    bresult,    \* what process returned or raised
    bprev,      \* what the invocation before this one returned or raised
    bround,     \* invocations of process so far
    bquiet,     \* Blazar holds what the invocation before this one left
    bconflict,  \* the payload of a create conflict has been merged
    bfaults,    \* the failing responses Blazar gave: round, call and status
    blisted     \* the leases _lease_list returned to this invocation

bvars == <<bhw, bwindows, bdetails, bhosts, bleases, bnow, bpc, bresres, bcheck,
           bleft, bdeferred, bcalls, bresult, bprev, bround, bquiet, bconflict,
           bfaults, blisted>>

\* The node patch of the provisioning integration, on its own (PART 2b).
VARIABLES
    pexisting,  \* the node as read from Ironic: name, driver_info
    pdesired,   \* desired_state built from the hardware: name, driver_info
    ppatch,     \* the patch computed by _do_node_update
    ppc         \* where _do_node_update stands

pvars == <<pexisting, pdesired, ppatch, ppc>>

\* import_existing of the reservation physical-host worker (PART 3b).
VARIABLES
    xlisted,    \* the hosts as Blazar returned them
    xhosts,     \* the list existing_hosts, which the loop iterates and appends to
    xidx,       \* the position of the loop in existing_hosts
    xpc,        \* where import_existing stands
    xresult     \* what import_existing returned or raised

xvars == <<xlisted, xhosts, xidx, xpc, xresult>>

\* The tunnel integration (PART 4).
VARIABLES
    thw,        \* hardware.properties["channels"]: channel name to desired properties
    tchannels,  \* the channels held by Tunelo
    tdetails,   \* state_details of the Task: every payload so far merged in
    tsent,      \* requests sent to Tunelo by the invocation in hand, in order
    tcreated,   \* channel name to the uuid of the channel process last created for it
    tresult,    \* what process returned or raised
    tpc,        \* "idle" or "returned"
    tround      \* invocations of process so far

tvars == <<thw, tchannels, tdetails, tsent, tcreated, tresult, tpc, tround>>

\* The cluster-node integration (PART 5).
VARIABLES
    khw,        \* the Hardware passed to process: deleted, properties
    ksecrets,   \* token ids of the bootstrap-token secrets held by the cluster
    knode,      \* the node of the hardware's name in the cluster, with its labels
    kcalls,     \* cluster API calls of the invocation in hand, with their answers
    kissued,    \* tokens generate_k8s_bootstrap_token has handed out so far
    kresult,    \* what process returned or raised
    kround      \* invocations of process so far

kvars == <<khw, ksecrets, knode, kcalls, kissued, kresult, kround>>

\* The import command (PART 6).
VARIABLES
    citems,     \* the items the workers' import_existing report, in order
    cdry,       \* CONF["import"].dry_run
    cexisting,  \* the dictionary existing: uuid to the record gathered for it
    cleft,      \* the items still to go through
    cdb,        \* the Hardware records in the database
    cpc,        \* where import_existing stands
    cresult     \* how import_existing ended

cvars == <<citems, cdry, cexisting, cleft, cdb, cpc, cresult>>

\* What the manager's steps leave alone, and what the integrations' steps do.
notManager == <<ivars, bvars, pvars, xvars, tvars, kvars, cvars>>

notIronic == <<mvars, bvars, pvars, xvars, tvars, kvars, cvars>>

notBlazar == <<mvars, ivars, pvars, xvars, tvars, kvars, cvars>>

notPatch == <<mvars, ivars, bvars, xvars, tvars, kvars, cvars>>

notImport == <<mvars, ivars, bvars, pvars, tvars, kvars, cvars>>

notTunelo == <<mvars, ivars, bvars, pvars, xvars, kvars, cvars>>

notK8s == <<mvars, ivars, bvars, pvars, xvars, tvars, cvars>>

notCommand == <<mvars, ivars, bvars, pvars, xvars, tvars, kvars>>

vars == <<mvars, ivars, bvars, pvars, xvars, tvars, kvars, cvars>>

Resources == {"r1", "r2"}
WorkerNames == {"fake"}
Managers == {"m1", "m2"}
TaskStates == {"PENDING", "IN_PROGRESS", "STEADY", "ERROR"}
NonTerminal == {"PENDING", "IN_PROGRESS"}

\* Re-sync interval after Success and the backoffs after Defer and error
\* (section 5: a backoff is strictly shorter than the steady interval).
SteadyInterval == 2
DeferBackoff == 1
ErrorBackoff == 1

\* state_details and payloads are finite maps from keys to values.
EmptyMap == [k \in {} |-> 0]
Payloads == {[k \in {"a"} |-> 1], [k \in {"a", "b"} |-> IF k = "a" THEN 2 ELSE 1]}
Reasons == {"locked"}

\* ReservationWindow (section 3): uuid and resource_uuid, the back-reference.
WindowRecords ==
    {[uuid |-> "w1", resource_uuid |-> "r1"],
     [uuid |-> "w2", resource_uuid |-> "r1"],
     [uuid |-> "w3", resource_uuid |-> "r2"]}

\* ListReservationWindowsForResource (section 6).
AnyResourceWindows(ws, r) == ws

ListReservationWindowsForResource(ws, r) == {w \in ws : w.resource_uuid = r}

\* No Worker.Process call in hand.
NoArgs == [windows |-> {}, state_details |-> None]

\* What one Worker.Process invocation can come to (section 3, Result).
Outcomes ==
    [kind : {"success"}, payload : Payloads, reason : {None}]
      \cup [kind : {"defer"}, payload : Payloads, reason : Reasons]
      \cup [kind : {"raise"}, payload : {EmptyMap}, reason : {None}]

Key(t) == <<t.resource, t.worker>>

\* "payload merges into state_details": the payload's keys win.
MergePayload(details, payload) ==
    [k \in (DOMAIN details) \cup (DOMAIN payload) |->
        IF k \in DOMAIN payload THEN payload[k] ELSE details[k]]

\* next_check_at is kept as the time still to pass before the check is due
\* (next_check_at - now): 0 means next_check_at <= now.
NewTask(r, w) ==
    [resource |-> r, worker |-> w, state |-> "PENDING", state_details |-> EmptyMap,
     last_error |-> None, reason |-> None, next_check_at |-> 0, version |-> 0]

NoTask == [resource |-> None]
NoOutcome == [kind |-> None]
AllKeys == Resources \X WorkerNames

(***************************************************************************)
(* Task Store interface (section 6): ListDueTasks(now) and                 *)
(* UpsertTask(task, expectedPriorVersion).                                 *)
(***************************************************************************)
DueNotInProgress(t) ==
    t.state \in {"PENDING", "ERROR"} \/ (t.state = "STEADY" /\ t.next_check_at <= 0)

Due(t) == t.state # "STEADY" \/ t.next_check_at <= 0

ListDueTasks(store) == {t \in store : Due(t)}

CasApplies(store, task, expected) ==
    \E s \in store : Key(s) = Key(task) /\ s.version = expected

CasAlways(store, task, expected) ==
    \E s \in store : Key(s) = Key(task)

\* The update is a compare-and-set on the Task's prior version: it replaces the
\* stored Task only while that still carries the version the caller read.
UpsertGuard(store, task, expected) == CasApplies(store, task, expected)

UpsertTask(store, task, expected) ==
    IF UpsertGuard(store, task, expected)
    THEN {s \in store : Key(s) # Key(task)}
           \cup {[task EXCEPT !.version = expected + 1]}
    ELSE store

\* The caller's write is refused and the Task it read has meanwhile been
\* persisted by a convergence step (a property change would have left PENDING).
LostToFinish(store, task, expected) ==
    \E s \in store : /\ Key(s) = Key(task)
                     /\ s.version = expected + 1
                     /\ s.state # "PENDING"

\* A Task is created PENDING when a resource becomes eligible for a worker
\* (new resource, newly enabled integration, property change); an existing
\* Task of the pair is put back to PENDING instead of being added again.
PairTasksInsert(store, r, w) ==
    {t \in store : Key(t) = <<r, w>>} \cup {NewTask(r, w)}

PairTasks(store, r, w) ==
    LET old == {t \in store : Key(t) = <<r, w>>}
    IN IF old = {}
       THEN {NewTask(r, w)}
       ELSE {[t EXCEPT !.state = "PENDING", !.next_check_at = 0,
                       !.version = @ + 1] : t \in old}

EnsureTasks(store, rs, ws) ==
    {t \in store : ~(t.resource \in rs /\ t.worker \in ws)}
      \cup UNION {PairTasks(store, r, w) : r \in rs, w \in ws}

(***************************************************************************)
(* _processTask, steps 4 to 6: the Result interpreted into the Task.       *)
(***************************************************************************)
OnSuccessReplace(task, payload) ==
    [task EXCEPT !.state_details = payload, !.state = "STEADY",
                 !.last_error = None, !.next_check_at = SteadyInterval]

OnSuccess(task, payload) ==
    [task EXCEPT !.state_details = MergePayload(task.state_details, payload),
                 !.state = "STEADY", !.last_error = None,
                 !.next_check_at = SteadyInterval]

OnDeferToError(task, payload, reason) ==
    [task EXCEPT !.state_details = MergePayload(task.state_details, payload),
                 !.state = "ERROR", !.reason = reason,
                 !.next_check_at = DeferBackoff]

\* state is not assigned: it keeps the non-terminal value it has.
OnDefer(task, payload, reason) ==
    [task EXCEPT !.state_details = MergePayload(task.state_details, payload),
                 !.reason = reason, !.next_check_at = DeferBackoff]

OnErrorDropDetails(task) ==
    [task EXCEPT !.state = "ERROR", !.last_error = "error",
                 !.state_details = EmptyMap,
                 !.next_check_at = ErrorBackoff]

OnError(task) ==
    [task EXCEPT !.state = "ERROR", !.last_error = "error",
                 !.next_check_at = ErrorBackoff]

Interpret(task, o) ==
    CASE o.kind = "success" -> OnSuccess(task, o.payload)
      [] o.kind = "defer" -> OnDefer(task, o.payload, o.reason)
      [] OTHER -> OnError(task)

\* Step 2: the Task is marked IN_PROGRESS. The mark is informational: it is
\* written only onto the Task as it was read and does not move its version.
MarkInProgress(task) == [task EXCEPT !.state = "IN_PROGRESS"]

MarkStored(store, task) ==
    IF task \in store THEN (store \ {task}) \cup {MarkInProgress(task)} ELSE store

\* Time passes: every pending check comes one unit closer.
Elapse(store) ==
    {[t EXCEPT !.next_check_at = IF @ > 0 THEN @ - 1 ELSE 0] : t \in store}

\* The Tasks of the batch still to run after one Task's outcome: a failure of
\* one Task does not abort the batch.
RemainingBatchAbort(batch, o) == IF o.kind = "raise" THEN {} ELSE batch

RemainingBatch(batch, o) == batch

(***************************************************************************)
(* Actions of the Manager machine.                                         *)
(***************************************************************************)
Spoil(keep) == [x \in Managers |-> IF x \in keep THEN mclean[x] ELSE FALSE]

MInit ==
    /\ registry = {}
    /\ enabled = WorkerNames
    /\ taskStore = {}
    /\ mpc = [m \in Managers |-> "idle"]
    /\ mbatch = [m \in Managers |-> {}]
    /\ mcur = [m \in Managers |-> NoTask]
    /\ mexpect = [m \in Managers |-> 0]
    /\ mdue = [m \in Managers |-> {}]
    /\ mcalls = [m \in Managers |-> [k \in AllKeys |-> 0]]
    /\ mout = [m \in Managers |-> NoOutcome]
    /\ mclean = [m \in Managers |-> FALSE]
    /\ raceLost = FALSE
    /\ windows = {}
    /\ mpassed = [m \in Managers |-> NoArgs]

\* A resource is registered: one PENDING Task per enabled worker.
CreateResource(r) ==
    /\ r \notin registry
    /\ registry' = registry \cup {r}
    /\ taskStore' = EnsureTasks(taskStore, {r}, enabled)
    /\ mclean' = Spoil({})
    /\ UNCHANGED <<enabled, mpc, mbatch, mcur, mexpect, mdue, mcalls, mout,
                   raceLost>>
    /\ UNCHANGED <<windows, mpassed>>
    /\ UNCHANGED notManager

\* The desired state of a resource changes: its Tasks go back to PENDING.
ChangeProperties(r) ==
    /\ r \in registry
    /\ \A t \in taskStore : t.resource = r => t.version < MaxVersion
    /\ taskStore' = EnsureTasks(taskStore, {r}, enabled)
    /\ mclean' = Spoil({})
    /\ UNCHANGED <<registry, enabled, mpc, mbatch, mcur, mexpect, mdue,
                   mcalls, mout, raceLost>>
    /\ UNCHANGED <<windows, mpassed>>
    /\ UNCHANGED notManager

\* Configuration change: an integration is switched on; every registered
\* resource becomes eligible for it.
EnableWorker(w) ==
    /\ w \notin enabled
    /\ \A t \in taskStore : t.worker = w => t.version < MaxVersion
    /\ enabled' = enabled \cup {w}
    /\ taskStore' = EnsureTasks(taskStore, registry, {w})
    /\ mclean' = Spoil({})
    /\ UNCHANGED <<registry, mpc, mbatch, mcur, mexpect, mdue, mcalls, mout,
                   raceLost>>
    /\ UNCHANGED <<windows, mpassed>>
    /\ UNCHANGED notManager

DisableWorker(w) ==
    /\ w \in enabled
    /\ enabled' = enabled \ {w}
    /\ UNCHANGED <<registry, taskStore, mpc, mbatch, mcur, mexpect, mdue,
                   mcalls, mout, mclean, raceLost>>
    /\ UNCHANGED <<windows, mpassed>>
    /\ UNCHANGED notManager

Tick ==
    /\ \E t \in taskStore : t.next_check_at > 0
    /\ taskStore' = Elapse(taskStore)
    /\ UNCHANGED <<registry, enabled, mpc, mbatch, mcur, mexpect,
                   mdue, mcalls, mout, mclean, raceLost>>
    /\ UNCHANGED <<windows, mpassed>>
    /\ UNCHANGED notManager

\* ProcessPending: the due Tasks are read from the Task Store.
StartCycle(m) ==
    /\ mpc[m] = "idle"
    /\ LET batch == ListDueTasks(taskStore)
       IN /\ batch # {}
          /\ mbatch' = [mbatch EXCEPT ![m] = batch]
          /\ mdue' = [mdue EXCEPT ![m] = {Key(t) : t \in batch}]
    /\ mpc' = [mpc EXCEPT ![m] = "batch"]
    /\ mcalls' = [mcalls EXCEPT ![m] = [k \in AllKeys |-> 0]]
    /\ mclean' = [mclean EXCEPT ![m] = TRUE]
    /\ UNCHANGED <<registry, enabled, taskStore, mcur, mexpect, mout, raceLost>>
    /\ UNCHANGED <<windows, mpassed>>
    /\ UNCHANGED notManager

\* _processTask, step 1, for a Task whose worker is unknown or disabled: the
\* Task is skipped and nothing is written.
SkipTask(m) ==
    /\ mpc[m] = "batch"
    /\ \E t \in mbatch[m] :
         /\ t.worker \notin enabled
         /\ mbatch' = [mbatch EXCEPT ![m] = @ \ {t}]
         /\ mcalls' = [mcalls EXCEPT ![m][Key(t)] = @ + 1]
         /\ mpc' = [mpc EXCEPT ![m] = IF mbatch[m] = {t} THEN "idle" ELSE "batch"]
    /\ mclean' = [mclean EXCEPT ![m] = FALSE]
    /\ UNCHANGED <<registry, enabled, taskStore, mcur, mexpect, mdue, mout,
                   raceLost>>
    /\ UNCHANGED <<windows, mpassed>>
    /\ UNCHANGED notManager

\* _processTask, steps 1 to 3: the worker is found, the Task is marked
\* IN_PROGRESS and Worker.Process is invoked with the Task's state_details;
\* its Result or error is in hand afterwards.
BeginTask(m) ==
    /\ mpc[m] = "batch"
    /\ \E t \in mbatch[m], o \in Outcomes :
         /\ t.worker \in enabled
         /\ mbatch' = [mbatch EXCEPT ![m] = @ \ {t}]
         /\ mcalls' = [mcalls EXCEPT ![m][Key(t)] = @ + 1]
         /\ taskStore' = MarkStored(taskStore, t)
         /\ mcur' = [mcur EXCEPT ![m] = MarkInProgress(t)]
         /\ mexpect' = [mexpect EXCEPT ![m] = t.version]
         /\ mout' = [mout EXCEPT ![m] = o]
         /\ mpassed' = [mpassed EXCEPT ![m] =
                           [windows |->
                               ListReservationWindowsForResource(windows, t.resource),
                            state_details |-> t.state_details]]
    /\ mpc' = [mpc EXCEPT ![m] = "invoke"]
    /\ UNCHANGED <<registry, enabled, mdue, mclean, raceLost>>
    /\ UNCHANGED windows
    /\ UNCHANGED notManager

\* _processTask, steps 4 to 7: the Result is interpreted and the Task is
\* persisted with UpsertTask(task, expectedPriorVersion).
FinishTask(m) ==
    /\ mpc[m] = "invoke"
    /\ LET new == Interpret(mcur[m], mout[m])
           applies == CasApplies(taskStore, new, mexpect[m])
           rest == RemainingBatch(mbatch[m], mout[m])
       IN /\ applies => mexpect[m] < MaxVersion
          /\ taskStore' = UpsertTask(taskStore, new, mexpect[m])
          /\ raceLost' = (raceLost \/ LostToFinish(taskStore, new, mexpect[m]))
          /\ mclean' = [x \in Managers |->
                          IF x = m
                          THEN mclean[m] /\ applies /\ mout[m].kind = "success"
                          ELSE mclean[x] /\ (taskStore' = taskStore)]
          /\ mbatch' = [mbatch EXCEPT ![m] = rest]
          /\ mpc' = [mpc EXCEPT ![m] = IF rest = {} THEN "idle" ELSE "batch"]
    /\ mcur' = [mcur EXCEPT ![m] = NoTask]
    /\ mout' = [mout EXCEPT ![m] = NoOutcome]
    /\ UNCHANGED <<registry, enabled, mexpect, mdue, mcalls>>
    /\ mpassed' = [mpassed EXCEPT ![m] = NoArgs]
    /\ UNCHANGED windows
    /\ UNCHANGED notManager

\* One Manager instance over the whole registry, with the clock standing still.
MNext ==
    \/ \E r \in Resources : CreateResource(r)
    \/ \E r \in Resources : ChangeProperties(r)
    \/ \E w \in WorkerNames : EnableWorker(w)
    \/ \E w \in WorkerNames : DisableWorker(w)
    \/ StartCycle("m1")
    \/ SkipTask("m1")
    \/ BeginTask("m1")
    \/ FinishTask("m1")


\* Several Manager instances sharing the Task Store and racing on the Tasks of
\* one resource, while time passes.
RaceNext ==
    \/ CreateResource("r1")
    \/ ChangeProperties("r1")
    \/ \E w \in WorkerNames : EnableWorker(w)
    \/ \E w \in WorkerNames : DisableWorker(w)
    \/ Tick
    \/ \E m \in Managers : StartCycle(m)
    \/ \E m \in Managers : SkipTask(m)
    \/ \E m \in Managers : BeginTask(m)
    \/ \E m \in Managers : FinishTask(m)


\* The Task of a pair as a cycle may have left it: never processed, STEADY
\* after a Success, or still converging after a Defer.
TaskShapes(r, w) ==
    {NewTask(r, w),
     [OnSuccess(MarkInProgress(NewTask(r, w)), [k \in {"a"} |-> 1])
         EXCEPT !.version = 1],
     [OnDefer(MarkInProgress(NewTask(r, w)), [k \in {"a"} |-> 1], "locked")
         EXCEPT !.version = 1]}

\* The windows the Registry may hold: of one resource only, one of each, all.
WindowSets ==
    {{w \in WindowRecords : w.uuid = "w3"},
     {w \in WindowRecords : w.uuid # "w2"},
     WindowRecords}

\* The Manager at the start of a cycle, over a registry that holds both
\* resources with any of their windows, each Task in any of its shapes.
MDispatchInit ==
    /\ registry = Resources
    /\ enabled = WorkerNames
    /\ windows \in WindowSets
    /\ taskStore \in {{t1, t2} : t1 \in TaskShapes("r1", "fake"),
                                 t2 \in TaskShapes("r2", "fake")}
    /\ mpc = [m \in Managers |-> "idle"]
    /\ mbatch = [m \in Managers |-> {}]
    /\ mcur = [m \in Managers |-> NoTask]
    /\ mexpect = [m \in Managers |-> 0]
    /\ mdue = [m \in Managers |-> {}]
    /\ mcalls = [m \in Managers |-> [k \in AllKeys |-> 0]]
    /\ mout = [m \in Managers |-> NoOutcome]
    /\ mclean = [m \in Managers |-> FALSE]
    /\ raceLost = FALSE
    /\ mpassed = [m \in Managers |-> NoArgs]

\* One resource is registered and its Task is new.
MRetryInit ==
    /\ registry = {"r1"}
    /\ enabled = WorkerNames
    /\ windows = WindowRecords
    /\ taskStore = {NewTask("r1", "fake")}
    /\ mpc = [m \in Managers |-> "idle"]
    /\ mbatch = [m \in Managers |-> {}]
    /\ mcur = [m \in Managers |-> NoTask]
    /\ mexpect = [m \in Managers |-> 0]
    /\ mdue = [m \in Managers |-> {}]
    /\ mcalls = [m \in Managers |-> [k \in AllKeys |-> 0]]
    /\ mout = [m \in Managers |-> NoOutcome]
    /\ mclean = [m \in Managers |-> FALSE]
    /\ raceLost = FALSE
    /\ mpassed = [m \in Managers |-> NoArgs]

\* One Manager instance running its cycles over that registry while time
\* passes and the integration is switched off and on.
DispatchNext ==
    \/ Tick
    \/ \E w \in WorkerNames : EnableWorker(w)
    \/ \E w \in WorkerNames : DisableWorker(w)
    \/ StartCycle("m1")
    \/ SkipTask("m1")
    \/ BeginTask("m1")
    \/ FinishTask("m1")

(***************************************************************************)
(* Properties of the Manager machine.                                      *)
(***************************************************************************)
TaskOf(store, key) == CHOOSE t \in store : Key(t) = key

\* The step in which Manager m persists the outcome of the Task in hand, and
\* the Task Store accepts the write.
Applied(m) ==
    /\ mpc[m] = "invoke"
    /\ mpc'[m] # "invoke"
    /\ CasApplies(taskStore, mcur[m], mexpect[m])

Persisted(m) == TaskOf(taskStore', Key(mcur[m]))

Before(m) == TaskOf(taskStore, Key(mcur[m]))

IsMerge(after, before, payload) ==
    /\ DOMAIN after = (DOMAIN before) \cup (DOMAIN payload)
    /\ \A k \in DOMAIN payload : after[k] = payload[k]
    /\ \A k \in (DOMAIN before) \ (DOMAIN payload) : after[k] = before[k]

C1_SuccessStep ==
    \A m \in Managers :
        (Applied(m) /\ mout[m].kind = "success") =>
            /\ Persisted(m).state = "STEADY"
            /\ Persisted(m).last_error = None
            /\ IsMerge(Persisted(m).state_details, Before(m).state_details,
                       mout[m].payload)

C1_CycleEnd ==
    \A m \in Managers :
        (mpc[m] = "idle" /\ mclean[m]) =>
            \A t \in taskStore :
                /\ t.state # "PENDING"
                /\ Key(t) \in mdue[m] => (t.state = "STEADY" /\ t.last_error = None)

\* C1 (as amended): a Success is persisted as state STEADY, last_error cleared
\* and state_details equal to the previous state_details with the payload merged
\* in; and when a ProcessPending cycle in which every worker returned Success
\* has ended, no Task is PENDING and every Task of the cycle is STEADY.
C1_SuccessMerges == [][C1_SuccessStep]_mvars /\ []C1_CycleEnd

\* C1 witness: a cycle over two Tasks has ended with Success throughout, and
\* one of them holds a payload merged into earlier state_details.
C1_Witness ==
    /\ mpc["m1"] = "idle"
    /\ mclean["m1"]
    /\ Cardinality(mdue["m1"]) = 2
    /\ \E t \in taskStore :
          /\ t.state = "STEADY"
          /\ DOMAIN t.state_details = {"a", "b"}
          /\ t.state_details["a"] = 1

\* C1 as stated: in a cycle in which every worker returns Success, each
\* processed Task ends STEADY with state_details equal to the worker's payload.
C1_AsClaimed ==
    [][\A m \in Managers :
          (Applied(m) /\ mclean[m] /\ mout[m].kind = "success") =>
              /\ Persisted(m).state = "STEADY"
              /\ Persisted(m).state_details = mout[m].payload]_mvars

\* C2: when Worker.Process raises, the Task is persisted with state ERROR and
\* last_error set, and its state_details is what it was before the invocation.
C2_ErrorKeepsDetails ==
    [][\A m \in Managers :
          (Applied(m) /\ mout[m].kind = "raise") =>
              /\ Persisted(m).state = "ERROR"
              /\ Persisted(m).last_error # None
              /\ Persisted(m).state_details = Before(m).state_details]_mvars

\* C2 witness: a Task that had cached state_details has been put in ERROR.
C2_Witness ==
    \E t \in taskStore :
        /\ t.state = "ERROR"
        /\ t.last_error # None
        /\ t.state_details # EmptyMap

\* C3: when Worker.Process returns Defer, the payload is merged into
\* state_details, the reason is recorded and the Task is left in a
\* non-terminal state, neither STEADY nor ERROR.
C3_DeferNonTerminal ==
    [][\A m \in Managers :
          (Applied(m) /\ mout[m].kind = "defer") =>
              /\ IsMerge(Persisted(m).state_details, Before(m).state_details,
                         mout[m].payload)
              /\ Persisted(m).reason = mout[m].reason
              /\ Persisted(m).state \in NonTerminal]_mvars

\* C3 witness: with the Manager idle, a Task carries a Defer reason and a
\* merged payload and is still converging.
C3_Witness ==
    /\ mpc["m1"] = "idle"
    /\ \E t \in taskStore :
          /\ t.reason # None
          /\ t.state \in NonTerminal
          /\ DOMAIN t.state_details = {"a", "b"}
          /\ t.state_details["a"] = 1

\* The step in which Manager m comes back from Worker.Process and tries to
\* persist, whatever the Task Store answers.
Attempted(m) == mpc[m] = "invoke" /\ mpc'[m] # "invoke"

SameVersion(m) ==
    \E s \in taskStore : Key(s) = Key(mcur[m]) /\ s.version = mexpect[m]

C5_EveryDueTaskOnce ==
    \A m \in Managers :
        /\ \A k \in AllKeys :
              /\ mcalls[m][k] <= 1
              /\ k \notin mdue[m] => mcalls[m][k] = 0
        /\ mpc[m] = "idle" => \A k \in mdue[m] : mcalls[m][k] = 1

\* C5 witness: a cycle over two due Tasks has ended, one of them was put in
\* ERROR by it, and both were processed.
C5_Witness ==
    /\ mpc["m1"] = "idle"
    /\ Cardinality(mdue["m1"]) = 2
    /\ \A k \in mdue["m1"] : mcalls["m1"][k] = 1
    /\ \E t \in taskStore : t.state = "ERROR"
    /\ \E t \in taskStore : t.state = "STEADY"

\* C6: the Task Store never holds two Tasks for one (resource, worker) pair.
C6_OneTaskPerPair ==
    \A t1, t2 \in taskStore : Key(t1) = Key(t2) => t1 = t2

\* C6 witness: both resources have a Task, one of them re-created PENDING by a
\* property change after a convergence step.
C6_Witness ==
    /\ Cardinality(taskStore) = 2
    /\ \E t \in taskStore :
          t.state = "PENDING" /\ t.version = 2 /\ t.state_details # EmptyMap

\* Manager m invokes the Worker of the Task with key k in this step.
Invokes(m, k) == mcalls'[m][k] > mcalls[m][k]

\* C22: no automatic retry after a contract violation. A Task that the Task
\* Store holds in ERROR, put there by an error raised in Process, is not
\* handed to its Worker again by any ProcessPending cycle; only a change of
\* the resource's desired state, which makes the Task PENDING again, lets the
\* Worker be invoked for it.
C22_AsClaimed ==
    [][\A m \in Managers, k \in AllKeys :
          Invokes(m, k) =>
              \A t \in taskStore : Key(t) = k => t.state # "ERROR"]_vars

\* C36: what the Manager hands to the Worker. In the step that invokes
\* Worker.Process for a Task, the windows passed are the windows of the
\* Registry whose resource_uuid is the Task's resource, all of them and no
\* other, and the state_details passed are the ones the Task Store holds for
\* the Task.
C36_Step ==
    \A m \in Managers :
        (mpc[m] = "batch" /\ mpc'[m] = "invoke")
            => /\ mpassed'[m].windows
                     = {w \in windows : w.resource_uuid = mcur'[m].resource}
               /\ mpassed'[m].state_details
                     = TaskOf(taskStore, Key(mcur'[m])).state_details

C36_InvocationArguments == [][C36_Step]_vars

\* The Worker is in hand for r1 with both windows of r1, while the Registry
\* also holds a window of r2, and with state_details an earlier cycle left.
C36_Witness ==
    /\ mpc["m1"] = "invoke"
    /\ mcur["m1"].resource = "r1"
    /\ windows = WindowRecords
    /\ Cardinality(mpassed["m1"].windows) = 2
    /\ mpassed["m1"].state_details # EmptyMap

\* The Worker of the Task of pair k is in hand.
InHand(k) ==
    \E m \in Managers : mpc[m] = "invoke" /\ Key(mcur[m]) = k

\* The last outcome persisted for the Task of pair k was a Defer: the Task is
\* stored IN_PROGRESS with the Defer's reason and nobody is working on it.
LastDeferred(k) ==
    /\ ~InHand(k)
    /\ \E t \in taskStore :
         Key(t) = k /\ t.state = "IN_PROGRESS" /\ t.reason # None

\* C37 as stated: under a Manager that keeps running, a Task whose last
\* outcome was Defer has its Worker invoked again, whatever happens to the
\* configuration meanwhile.
C37_AsClaimed ==
    \A k \in AllKeys : LastDeferred(k) ~> InHand(k)

\* C37: under a Manager that keeps running, a Task whose last outcome was
\* Defer has its Worker invoked again, unless the Task's worker is disabled
\* in the meantime.
C37_DeferredRetried ==
    \A k \in AllKeys :
        LastDeferred(k) ~> (InHand(k) \/ k[2] \notin enabled)

\* The Worker is in hand again for a Task that carries the reason of the
\* Defer of an earlier invocation of this run.
C37_Witness ==
    /\ mpc["m1"] = "invoke"
    /\ mcur["m1"].reason # None
    /\ mcur["m1"].version > 0
    /\ mcur["m1"].worker \in enabled

(***************************************************************************)
(* PART 2.  Provisioning integration: doni/driver/worker/ironic.py.        *)
(***************************************************************************)
\* Bound: the number of requests Ironic answers with an error status.
MaxFaults == 1

PROVISION_STATE_TIMEOUT == 60
PollSleep == 15

Null == "null"

IRONIC_STATE_TARGETS_AllProvide(target) == "provide"

\* IRONIC_STATE_TARGETS: the verb to request for a target state.
IRONIC_STATE_TARGETS(target) ==
    IF target = "manageable" THEN "manage" ELSE "provide"

\* str.lower() on the MAC addresses in use.
Lower(mac) == IF mac = "AA" THEN "aa" ELSE mac

Restrict(f, S) == [k \in S |-> f[k]]

\* _normalize_for_patch(existing, desired): both dicts as the call leaves them.
\* First every key of existing missing in desired is copied over; then every
\* key whose desired value is None is dropped from desired, and from existing
\* too when existing has no value for it.
NormalizeDesiredNoCarry(existing, desired) ==
    Restrict(desired, {k \in DOMAIN desired : desired[k] # Null})

NormalizeDesired(existing, desired) ==
    LET d1 == [k \in (DOMAIN existing) \cup (DOMAIN desired) |->
                  IF k \in DOMAIN desired THEN desired[k] ELSE existing[k]]
    IN Restrict(d1, {k \in DOMAIN d1 : d1[k] # Null})

NormalizeExistingKeepsNone(existing, desired) == existing

NormalizeExisting(existing, desired) ==
    LET d1 == [k \in (DOMAIN existing) \cup (DOMAIN desired) |->
                  IF k \in DOMAIN desired THEN desired[k] ELSE existing[k]]
    IN Restrict(existing, {k \in DOMAIN existing :
                               ~(d1[k] = Null /\ existing[k] = Null)})

\* jsonpatch.make_patch on two flat dicts below the path prefix.
DictPatch(prefix, src, dst) ==
    {[op |-> "remove", path |-> <<prefix, k>>, value |-> Null] :
         k \in (DOMAIN src) \ (DOMAIN dst)}
      \cup {[op |-> "add", path |-> <<prefix, k>>, value |-> dst[k]] :
                k \in (DOMAIN dst) \ (DOMAIN src)}
      \cup {[op |-> "replace", path |-> <<prefix, k>>, value |-> dst[k]] :
                k \in {j \in (DOMAIN src) \cap (DOMAIN dst) : src[j] # dst[j]}}

\* make_patch on a scalar field present on both sides.
ScalarPatch(field, src, dst) ==
    IF src = dst THEN {}
    ELSE {[op |-> "replace", path |-> <<field>>, value |-> dst]}

\* A JSON patch applied to a flat dict by the service.
ApplyDictPatch(prefix, dict, ops) ==
    LET mine == {o \in ops : Len(o.path) = 2 /\ o.path[1] = prefix}
        gone == {o.path[2] : o \in {x \in mine : x.op = "remove"}}
        set == {o \in mine : o.op # "remove"}
        keys == ((DOMAIN dict) \ gone) \cup {o.path[2] : o \in set}
    IN [k \in keys |->
           IF \E o \in set : o.path[2] = k
           THEN (CHOOSE o \in set : o.path[2] = k).value
           ELSE dict[k]]

\* process: desired_state built from the hardware.
DesiredState(hw) == [name |-> hw.name, driver_info |-> hw.driver_info]

\* _do_node_update: the patch from the node as read to the desired state.
NodePatch(node, desired) ==
    ScalarPatch("name", node.name, desired.name)
      \cup DictPatch("driver_info",
                     NormalizeExisting(node.driver_info, desired.driver_info),
                     NormalizeDesired(node.driver_info, desired.driver_info))

\* _do_port_updates._desired_port_state(iface)
DesiredPortState(iface) ==
    [extra |-> [k \in {"name"} |-> iface.name],
     local_link_connection |->
        IF iface.switch_id # Null /\ iface.switch_port_id # Null
        THEN [k \in {"switch_id", "port_id", "switch_info"} |->
                 CASE k = "switch_id" -> iface.switch_id
                   [] k = "port_id" -> iface.switch_port_id
                   [] OTHER -> ""]
        ELSE EmptyMap,
     pxe_enabled |-> iface.pxe_enabled]

\* _do_port_updates: the patch of one existing port towards its interface.
PortPatch(port, iface) ==
    LET want == DesiredPortState(iface)
    IN DictPatch("extra", NormalizeExisting(port.extra, want.extra),
                 NormalizeDesired(port.extra, want.extra))
         \cup DictPatch("local_link_connection",
                        NormalizeExisting(port.local_link_connection,
                                          want.local_link_connection),
                        NormalizeDesired(port.local_link_connection,
                                         want.local_link_connection))
         \cup ScalarPatch("pxe_enabled", port.pxe_enabled, want.pxe_enabled)

\* _do_port_updates: the MAC sets. A later entry of a MAC wins in the dicts.
ExistingMacs(ports) == {Lower(p.address) : p \in ports}

DesiredMacsAnyInterface(interfaces) ==
    {Lower(interfaces[i].mac_address) : i \in 1..Len(interfaces)}

DesiredMacs(interfaces) ==
    {Lower(interfaces[i].mac_address) : i \in
        {j \in 1..Len(interfaces) :
            /\ interfaces[j].enabled
            /\ \A h \in (j + 1)..Len(interfaces) :
                  Lower(interfaces[h].mac_address) # Lower(interfaces[j].mac_address)}}

IfaceByMac(interfaces, mac) ==
    interfaces[CHOOSE j \in 1..Len(interfaces) :
        /\ Lower(interfaces[j].mac_address) = mac
        /\ \A h \in (j + 1)..Len(interfaces) :
              Lower(interfaces[h].mac_address) # mac]

PortByMac(ports, mac) == CHOOSE p \in ports : Lower(p.address) = mac

IfacesToAdd(ports, interfaces) == DesiredMacs(interfaces) \ ExistingMacs(ports)

IfacesToUpdate(ports, interfaces) == DesiredMacs(interfaces) \cap ExistingMacs(ports)

IfacesToRemove(ports, interfaces) == ExistingMacs(ports) \ DesiredMacs(interfaces)

\* _do_port_updates: whether the node is moved to manageable for the ports.
NeedsManageableNever(ports, interfaces) == FALSE

NeedsManageable(ports, interfaces) ==
    \/ IfacesToAdd(ports, interfaces) # {}
    \/ IfacesToUpdate(ports, interfaces) # {}
    \/ IfacesToRemove(ports, interfaces) # {}

\* process: the guard on a node in maintenance.
MaintenanceIgnored(node) == FALSE

InMaintenance(node) == node.maintenance

\* Requests that change something at Ironic.
ReadCalls == {"GET node", "GET ports", "GET host", "GET hosts", "GET leases"}

Mutating(calls) == {i \in 1..Len(calls) : calls[i].call \notin ReadCalls}

(***************************************************************************)
(* The hardware records and the Ironic contents process is run against.    *)
(***************************************************************************)
Iface(mac, name, sw, on) ==
    [mac_address |-> mac, name |-> name, switch_id |-> sw,
     switch_port_id |-> IF sw = Null THEN Null ELSE "p1",
     pxe_enabled |-> TRUE, enabled |-> on]

InterfaceLists ==
    {<<>>,
     <<Iface("AA", "e1", "s1", TRUE)>>,
     <<Iface("AA", "e1", "s1", TRUE), Iface("bb", "e2", Null, FALSE)>>}

DriverInfo(addr, kernel) ==
    [k \in {"ipmi_address", "deploy_kernel"} |->
        IF k = "ipmi_address" THEN addr ELSE kernel]

\* process reads name, properties and interfaces of the hardware; its deleted
\* flag is there too, on a hardware without interfaces.
Hardwares ==
    {[name |-> "n1", driver_info |-> DriverInfo("v1", Null), interfaces |-> l,
      deleted |-> FALSE] : l \in InterfaceLists}
      \cup {[name |-> "n1", driver_info |-> DriverInfo("v1", Null),
              interfaces |-> <<>>, deleted |-> TRUE]}

\* driver_info as Ironic may hold it: as desired, with another address, with a
\* key the inventory does not manage, with a kernel the inventory unsets.
NodeInfos ==
    {[k \in {"ipmi_address"} |-> "v1"],
     [k \in {"ipmi_address"} |-> "v2"],
     [k \in {"ipmi_address", "x"} |-> "v1"],
     DriverInfo("v1", "v1")}

NoNode ==
    [exists |-> FALSE, maintenance |-> FALSE, provision_state |-> None,
     name |-> None, driver_info |-> EmptyMap, pending |-> None]

Nodes ==
    {NoNode}
      \cup {[exists |-> TRUE, maintenance |-> mt, provision_state |-> ps,
             name |-> "n1", driver_info |-> di, pending |-> None] :
                mt \in BOOLEAN, ps \in {"manageable", "available"},
                di \in NodeInfos}

PortUuid(mac) == IF Lower(mac) = "aa" THEN "pa" ELSE "pb"

\* The port Ironic holds after a POST /ports for the interface.
NewPort(iface) ==
    [uuid |-> PortUuid(iface.mac_address), address |-> iface.mac_address,
     extra |-> DesiredPortState(iface).extra,
     local_link_connection |-> DesiredPortState(iface).local_link_connection,
     pxe_enabled |-> DesiredPortState(iface).pxe_enabled]

PortSets ==
    LET a == NewPort(Iface("aa", "e1", "s1", TRUE))
        old == [a EXCEPT !.extra = [k \in {"name"} |-> "e0"]]
        b == NewPort(Iface("bb", "e2", Null, TRUE))
    IN {{}, {a}, {old}, {b}, {a, b}}

NoResult == [kind |-> None, reason |-> ""]

Success == [kind |-> "success", reason |-> ""]

MaintenanceDefer == [kind |-> "defer", reason |-> "Node is in maintenance mode."]

Raised(code) == [kind |-> "raise", reason |-> code]

NoTodo == [add |-> {}, update |-> {}, remove |-> {}]

Sent(call, body) == [call |-> call, body |-> body]

\* The statuses Ironic may answer a request with: 200, or an error while the
\* fault budget lasts (409 the node is locked, 500, and 400 for a provision
\* state change Ironic rejects).
Statuses(call) ==
    {"200"} \cup (IF Len(ifaults) < MaxFaults
                  THEN {"409", "500"}
                         \cup (IF call \in {"PUT manage", "PUT provide"}
                               THEN {"400"} ELSE {})
                  ELSE {})

Fault(st) == ifaults' = IF st = "200" THEN ifaults ELSE Append(ifaults, st)

\* What perf_counter() - start_time reads at the first turn of the loop: 0 on
\* a clock that only the sleeps advance, one poll interval on a counter that
\* advances with every reading (the one test_ironic_provision_state_timeout
\* patches in). Each turn of the loop then adds the sleep.
FirstReadings == {0, PollSleep}

\* _wait_for_provision_state: the test of the elapsed time against the timeout.
TimedOutAtTimeout(elapsed) == elapsed >= PROVISION_STATE_TIMEOUT

TimedOut(elapsed) == elapsed > PROVISION_STATE_TIMEOUT

IInit ==
    /\ ihw \in Hardwares
    /\ iclock \in FirstReadings
    /\ inode \in Nodes
    /\ iports \in (IF inode.exists THEN PortSets ELSE {{}})
    /\ ipc = "start"
    /\ itarget = None
    /\ iret = None
    /\ ielapsed = 0
    /\ ipatch = {}
    /\ itodo = NoTodo
    /\ ineeds = FALSE
    /\ icalls = <<>>
    /\ iresult = NoResult
    /\ ifaults = <<>>
    /\ itimedout = FALSE

\* The Ironic machine at rest, for the specifications of the other machines.
IIdle ==
    /\ ihw = [name |-> "n1", driver_info |-> DriverInfo("v1", Null),
              interfaces |-> <<>>, deleted |-> FALSE]
    /\ iclock = 0
    /\ inode = NoNode
    /\ iports = {}
    /\ ipc = "done"
    /\ itarget = None
    /\ iret = None
    /\ ielapsed = 0
    /\ ipatch = {}
    /\ itodo = NoTodo
    /\ ineeds = FALSE
    /\ icalls = <<>>
    /\ iresult = NoResult
    /\ ifaults = <<>>
    /\ itimedout = FALSE

\* Control transfers of process and its helpers.
CallWait(target, ret) ==
    /\ ipc' = "wps_get"
    /\ itarget' = target
    /\ iret' = ret
    /\ iresult' = iresult

\* The caller goes on after wait_for_provision_state; whatever that returned is
\* dropped. _do_node_create goes on to the second wait; the last wait of
\* _do_port_updates is followed by process returning Success.
GoOn(ret) ==
    CASE ret = "create_available" ->
            /\ ipc' = "wps_get"
            /\ itarget' = "available"
            /\ iret' = "ports"
            /\ iresult' = iresult
      [] ret = "return" ->
            /\ ipc' = "done"
            /\ iresult' = Success
            /\ UNCHANGED <<itarget, iret>>
      [] OTHER ->
            /\ ipc' = ret
            /\ UNCHANGED <<itarget, iret, iresult>>

Raise(code) ==
    /\ ipc' = "done"
    /\ iresult' = Raised(code)
    /\ UNCHANGED <<itarget, iret>>

(***************************************************************************)
(* Actions of the Ironic machine: one per request process sends.           *)
(***************************************************************************)
\* process: GET /nodes/{uuid}, with 404 allowed, and the branch taken on it.
\* _do_node_update computes its patch from the node read here.
GetNode ==
    /\ ipc = "start"
    /\ \E st \in Statuses("GET node") :
          /\ Fault(st)
          /\ icalls' = Append(icalls, Sent("GET node", {}))
          /\ IF st # "200"
             THEN Raise(st) /\ UNCHANGED <<ipatch>>
             ELSE IF ~inode.exists
             THEN GoOn("create") /\ UNCHANGED <<ipatch>>
             ELSE IF InMaintenance(inode)
             THEN /\ ipc' = "done"
                  /\ iresult' = MaintenanceDefer
                  /\ UNCHANGED <<itarget, iret, ipatch>>
             ELSE LET patch == NodePatch(inode, DesiredState(ihw))
                  IN /\ ipatch' = patch
                     /\ IF patch = {}
                        THEN GoOn("ports")
                        ELSE IF inode.provision_state # "manageable"
                        THEN CallWait("manageable", "patch_node")
                        ELSE GoOn("patch_node")
    /\ UNCHANGED <<ihw, iclock, itimedout, inode, iports, ielapsed, itodo, ineeds>>
    /\ UNCHANGED notIronic

\* _do_node_create: POST /nodes, then the wait for manageable.
CreateNode ==
    /\ ipc = "create"
    /\ \E st \in Statuses("POST node") :
          /\ Fault(st)
          /\ icalls' = Append(icalls, Sent("POST node", {}))
          /\ IF st # "200"
             THEN Raise(st) /\ UNCHANGED inode
             ELSE /\ inode' = [exists |-> TRUE, maintenance |-> FALSE,
                               provision_state |-> "enroll",
                               name |-> DesiredState(ihw).name,
                               driver_info |-> DesiredState(ihw).driver_info,
                               pending |-> None]
                  /\ CallWait("manageable", "create_available")
    /\ UNCHANGED <<ihw, iclock, itimedout, iports, ielapsed, ipatch, itodo, ineeds>>
    /\ UNCHANGED notIronic

\* _do_node_update: PATCH /nodes/{uuid}, then the wait for available.
PatchNode ==
    /\ ipc = "patch_node"
    /\ \E st \in Statuses("PATCH node") :
          /\ Fault(st)
          /\ icalls' = Append(icalls, Sent("PATCH node", ipatch))
          /\ IF st # "200"
             THEN Raise(st) /\ UNCHANGED inode
             ELSE /\ inode' =
                        [inode EXCEPT
                           !.name = IF \E o \in ipatch : o.path = <<"name">>
                                    THEN (CHOOSE o \in ipatch :
                                             o.path = <<"name">>).value
                                    ELSE @,
                           !.driver_info =
                               ApplyDictPatch("driver_info", @, ipatch)]
                  /\ CallWait("available", "ports")
    /\ UNCHANGED <<ihw, iclock, itimedout, iports, ielapsed, ipatch, itodo, ineeds>>
    /\ UNCHANGED notIronic

\* wait_for_provision_state caught an error of _wait_for_provision_state:
\* a 400 or a 409 becomes a Defer handed to the caller, anything else is raised.
WaitFailed(st) ==
    IF st \in {"400", "409"} THEN GoOn(iret) ELSE Raise(st)

\* _wait_for_provision_state: the first GET /nodes/{uuid}.
WaitGet ==
    /\ ipc = "wps_get"
    /\ \E st \in Statuses("GET node") :
          /\ Fault(st)
          /\ icalls' = Append(icalls, Sent("GET node", {}))
          /\ IF st # "200"
             THEN WaitFailed(st)
             ELSE IF inode.provision_state = itarget
             THEN GoOn(iret)
             ELSE /\ ipc' = "wps_put"
                  /\ UNCHANGED <<itarget, iret, iresult>>
    /\ UNCHANGED <<ihw, iclock, itimedout, inode, iports, ielapsed, ipatch, itodo, ineeds>>
    /\ UNCHANGED notIronic

\* _wait_for_provision_state: PUT /nodes/{uuid}/states/provision, start_time.
WaitPut ==
    /\ ipc = "wps_put"
    /\ LET call == IF IRONIC_STATE_TARGETS(itarget) = "manage"
                   THEN "PUT manage" ELSE "PUT provide"
       IN \E st \in Statuses(call) :
             /\ Fault(st)
             /\ icalls' = Append(icalls, Sent(call, {}))
             /\ IF st # "200"
                THEN WaitFailed(st) /\ UNCHANGED <<inode, ielapsed>>
                ELSE /\ inode' = [inode EXCEPT !.pending = itarget]
                     /\ ielapsed' = iclock
                     /\ ipc' = "wps_poll"
                     /\ UNCHANGED <<itarget, iret, iresult>>
    /\ UNCHANGED <<ihw, iclock, itimedout, iports, ipatch, itodo, ineeds>>
    /\ UNCHANGED notIronic

\* _wait_for_provision_state: one turn of the loop. Past the timeout it raises
\* IronicNodeProvisionStateTimeout, which wait_for_provision_state turns into a
\* Defer handed to the caller; else it sleeps and reads the node again.
WaitPoll ==
    /\ ipc = "wps_poll"
    /\ IF TimedOut(ielapsed)
       THEN /\ GoOn(iret)
            /\ itimedout' = TRUE
            /\ UNCHANGED <<icalls, ielapsed, ifaults>>
       ELSE \E st \in Statuses("GET node") :
               /\ Fault(st)
               /\ itimedout' = itimedout
               /\ ielapsed' = ielapsed + PollSleep
               /\ icalls' = Append(icalls, Sent("GET node", {}))
               /\ IF st # "200"
                  THEN WaitFailed(st)
                  ELSE IF inode.provision_state = itarget
                  THEN GoOn(iret)
                  ELSE UNCHANGED <<ipc, itarget, iret, iresult>>
    /\ UNCHANGED <<ihw, iclock, inode, iports, ipatch, itodo, ineeds>>
    /\ UNCHANGED notIronic

\* Ironic finishes the provision state change it was asked for. process sees
\* the provision state only in the reads of _wait_for_provision_state, so the
\* change is let happen just before one of them.
ProvisionDone ==
    /\ ipc \in {"wps_get", "wps_poll"}
    /\ inode.pending # None
    /\ inode' = [inode EXCEPT !.provision_state = inode.pending,
                              !.pending = None]
    /\ UNCHANGED <<ihw, iclock, itimedout, iports, ipc, itarget, iret, ielapsed, ipatch, itodo,
                   ineeds, icalls, iresult, ifaults>>
    /\ UNCHANGED notIronic

\* _do_port_updates: GET /ports?node=..., the three MAC sets, and the move to
\* manageable when any of them is non-empty.
GetPorts ==
    /\ ipc = "ports"
    /\ \E st \in Statuses("GET ports") :
          /\ Fault(st)
          /\ icalls' = Append(icalls, Sent("GET ports", {}))
          /\ IF st # "200"
             THEN Raise(st) /\ UNCHANGED <<itodo, ineeds>>
             ELSE /\ itodo' = [add |-> IfacesToAdd(iports, ihw.interfaces),
                               update |-> IfacesToUpdate(iports, ihw.interfaces),
                               remove |-> IfacesToRemove(iports, ihw.interfaces)]
                  /\ ineeds' = NeedsManageable(iports, ihw.interfaces)
                  /\ IF NeedsManageable(iports, ihw.interfaces)
                     THEN CallWait("manageable", "port_ops")
                     ELSE GoOn("port_ops")
    /\ UNCHANGED <<ihw, iclock, itimedout, inode, iports, ielapsed, ipatch>>
    /\ UNCHANGED notIronic

\* _do_port_updates: POST /ports for one interface of ifaces_to_add.
AddPort ==
    /\ ipc = "port_ops"
    /\ \E mac \in itodo.add, st \in Statuses("POST port") :
          /\ Fault(st)
          /\ icalls' = Append(icalls, Sent("POST port", {}))
          /\ IF st # "200"
             THEN Raise(st) /\ UNCHANGED <<iports, itodo>>
             ELSE /\ iports' = iports \cup {NewPort(IfaceByMac(ihw.interfaces, mac))}
                  /\ itodo' = [itodo EXCEPT !.add = @ \ {mac}]
                  /\ UNCHANGED <<ipc, itarget, iret, iresult>>
    /\ UNCHANGED <<ihw, iclock, itimedout, inode, ielapsed, ipatch, ineeds>>
    /\ UNCHANGED notIronic

\* _do_port_updates: one port of ifaces_to_update. An empty patch is skipped,
\* else PATCH /ports/{uuid}.
UpdatePort ==
    /\ ipc = "port_ops"
    /\ itodo.add = {}
    /\ \E mac \in itodo.update :
          LET port == PortByMac(iports, mac)
              patch == PortPatch(port, IfaceByMac(ihw.interfaces, mac))
              done == [itodo EXCEPT !.update = @ \ {mac}]
          IN IF patch = {}
             THEN /\ itodo' = done
                  /\ UNCHANGED <<iports, icalls, ifaults, ipc, itarget, iret,
                                 iresult>>
             ELSE \E st \in Statuses("PATCH port") :
                     /\ Fault(st)
                     /\ icalls' = Append(icalls, Sent("PATCH port", patch))
                     /\ IF st # "200"
                        THEN Raise(st) /\ UNCHANGED <<iports, itodo>>
                        ELSE /\ iports' = (iports \ {port}) \cup
                                   {[port EXCEPT
                                       !.extra = ApplyDictPatch("extra", @, patch),
                                       !.local_link_connection =
                                           ApplyDictPatch("local_link_connection",
                                                          @, patch),
                                       !.pxe_enabled =
                                           IF \E o \in patch :
                                                 o.path = <<"pxe_enabled">>
                                           THEN ~@ ELSE @]}
                             /\ itodo' = done
                             /\ UNCHANGED <<ipc, itarget, iret, iresult>>
    /\ UNCHANGED <<ihw, iclock, itimedout, inode, ielapsed, ipatch, ineeds>>
    /\ UNCHANGED notIronic

\* _do_port_updates: DELETE /ports/{uuid} for one port of ifaces_to_remove.
RemovePort ==
    /\ ipc = "port_ops"
    /\ itodo.add = {}
    /\ itodo.update = {}
    /\ \E mac \in itodo.remove, st \in Statuses("DELETE port") :
          /\ Fault(st)
          /\ icalls' = Append(icalls, Sent("DELETE port", {}))
          /\ IF st # "200"
             THEN Raise(st) /\ UNCHANGED <<iports, itodo>>
             ELSE /\ iports' = iports \ {PortByMac(iports, mac)}
                  /\ itodo' = [itodo EXCEPT !.remove = @ \ {mac}]
                  /\ UNCHANGED <<ipc, itarget, iret, iresult>>
    /\ UNCHANGED <<ihw, iclock, itimedout, inode, ielapsed, ipatch, ineeds>>
    /\ UNCHANGED notIronic

\* _do_port_updates is through its loops: back to available if it had moved
\* the node, and process returns Success.
PortsDone ==
    /\ ipc = "port_ops"
    /\ itodo = NoTodo
    /\ IF ineeds THEN CallWait("available", "return") ELSE GoOn("return")
    /\ UNCHANGED <<ihw, iclock, itimedout, inode, iports, ielapsed, ipatch, itodo, ineeds, icalls,
                   ifaults>>
    /\ UNCHANGED notIronic

INext ==
    \/ GetNode
    \/ CreateNode
    \/ PatchNode
    \/ WaitGet
    \/ WaitPut
    \/ WaitPoll
    \/ ProvisionDone
    \/ GetPorts
    \/ AddPort
    \/ UpdatePort
    \/ RemovePort
    \/ PortsDone

(***************************************************************************)
(* Claims on the Ironic machine.                                           *)
(***************************************************************************)
\* Ironic already holds what the hardware asks for: the node patch is empty,
\* every enabled interface has a port whose patch is empty, no port is to be
\* added or removed.
Converged ==
    /\ inode.exists
    /\ ~inode.maintenance
    /\ inode.pending = None
    /\ NodePatch(inode, DesiredState(ihw)) = {}
    /\ IfacesToAdd(iports, ihw.interfaces) = {}
    /\ IfacesToRemove(iports, ihw.interfaces) = {}
    /\ \A mac \in IfacesToUpdate(iports, ihw.interfaces) :
          PortPatch(PortByMac(iports, mac), IfaceByMac(ihw.interfaces, mac)) = {}

C7_Step ==
    (Converged /\ Mutating(icalls) = {} /\ ifaults' = <<>>)
        => /\ Mutating(icalls') = {}
           /\ ipc' = "done" => iresult' = Success

\* C7: idempotence of the provisioning integration. When Ironic already holds
\* the desired node (empty node patch), every enabled interface already has a
\* port with identical attributes and no port is to be removed, and every
\* request is answered, no step of process sends a mutating request and
\* process returns Success.
C7_AsClaimed == [][C7_Step]_vars

\* C10: maintenance guard. Whenever the node exists in Ironic and is flagged
\* as in maintenance, process has sent no mutating request, whatever the
\* desired state; and once it has returned after its node read was answered,
\* what it returned is a Defer.
C10_MaintenanceGuard ==
    (inode.exists /\ inode.maintenance)
        => /\ Mutating(icalls) = {}
           /\ (ipc = "done" /\ ifaults = <<>>) => iresult.kind = "defer"

\* C10's case: process returned on a node in maintenance whose attributes and
\* ports both differ from what the hardware asks for.
C10_Witness ==
    /\ ipc = "done"
    /\ inode.exists
    /\ inode.maintenance
    /\ iresult.kind = "defer"
    /\ Len(icalls) = 1
    /\ NodePatch(inode, DesiredState(ihw)) # {}
    /\ IfacesToAdd(iports, ihw.interfaces) # {}
    /\ IfacesToRemove(iports, ihw.interfaces) # {}

\* C11: locking. Whenever process has returned after some request of the
\* invocation, the first node read included, was answered 409, what it
\* returned is a Defer whose reason says the node is locked; it has not raised.
C11_AsClaimed ==
    (ipc = "done" /\ \E i \in DOMAIN ifaults : ifaults[i] = "409")
        => /\ iresult.kind = "defer"
           /\ iresult.reason = "Node is locked."

\* C12: a provisioning timeout becomes a Defer. Once a wait for a provision
\* state has timed out, process has returned, and what it returned is a Defer
\* with the reason that the provision state failed to change; it has neither
\* gone on with later steps nor returned Success.
C12_AsClaimed ==
    itimedout
        => /\ ipc = "done"
           /\ iresult.kind = "defer"
           /\ iresult.reason = "Failed to change provision state."

\* The polls of the node sent since the last request for a provision state.
IsTransitionRequest(c) == c.call \in {"PUT manage", "PUT provide"}

PollsSinceRequest(calls) ==
    LET last == CHOOSE i \in DOMAIN calls :
                   /\ IsTransitionRequest(calls[i])
                   /\ \A j \in (i + 1)..Len(calls) : ~IsTransitionRequest(calls[j])
    IN Len(calls) - last

\* The step in which the poll loop gives up: it leaves the loop without
\* having sent a request.
TimeoutStep == ipc = "wps_poll" /\ ipc' # "wps_poll" /\ icalls' = icalls

CeilDiv(a, b) == (a + b - 1) \div b

C13_Step ==
    TimeoutStep
        => PollsSinceRequest(icalls) =
              ((PROVISION_STATE_TIMEOUT - iclock) \div PollSleep) + 1

\* C13: timeout budget. When the provision state never equals the target and
\* every turn of the loop adds one poll interval (15 s, timeout 60 s) to the
\* clock, the timeout is raised after exactly floor((timeout - e) / interval)
\* + 1 polls sent after the transition request, e being what the clock reads
\* at the first turn: 4 polls when it reads one interval by then, 5 when it
\* still reads 0.
C13_TimeoutBudget == [][C13_Step]_vars

\* C13's case: on the clock that advances with every reading, a wait has
\* timed out after four polls.
C13_Witness ==
    /\ itimedout
    /\ iclock = PollSleep
    /\ TimedOut(ielapsed)
    /\ ipc # "wps_poll"
    /\ ~IsTransitionRequest(icalls[Len(icalls)])
    /\ PollsSinceRequest(icalls) = CeilDiv(PROVISION_STATE_TIMEOUT, PollSleep)

C13_ClaimedStep ==
    TimeoutStep
        => PollsSinceRequest(icalls) = CeilDiv(PROVISION_STATE_TIMEOUT, PollSleep)

\* C13 as stated: the timeout is raised after exactly ceil(timeout / interval)
\* = 4 polls, on every clock that each turn of the loop advances by one poll
\* interval.
C13_AsClaimed == [][C13_ClaimedStep]_vars

\* The requests of an invocation of the provisioning integration, by kind.
ICallsOf(calls, kinds) == {i \in 1..Len(calls) : calls[i].call \in kinds}

\* C21: deletion handling in the provisioning integration. For a hardware
\* that is deleted, process sends no node create, no node patch and no port
\* create; and when it has returned with every request answered, on a node
\* that is not in maintenance, the node is gone from Ironic and the result is
\* Success.
C21_AsClaimed ==
    ihw.deleted
        => /\ ICallsOf(icalls, {"POST node", "PATCH node", "POST port"}) = {}
           /\ (ipc = "done" /\ ifaults = <<>> /\ icalls # <<>>
                 /\ ~inode.maintenance)
                 => (iresult.kind = "success" /\ ~inode.exists)

\* C24: _wait_for_provision_state asks for at most one transition. A read
\* that finds the node in the target state ends the wait with no request;
\* a read that finds another state is followed at once by one request, with
\* the verb manage for manageable and provide for available; the request
\* comes straight after that read, before any poll, and polling never leads
\* to a second request.
C24_Requested == Len(icalls') > Len(icalls) /\ IsTransitionRequest(icalls'[Len(icalls')])

C24_Step ==
    /\ (ipc = "wps_get" /\ icalls' # icalls /\ ifaults' = ifaults)
          => IF inode.provision_state = itarget
             THEN ipc' \notin {"wps_put", "wps_poll"} /\ ~C24_Requested
             ELSE ipc' = "wps_put" /\ ~C24_Requested
    /\ (ipc = "wps_put" /\ ipc' # ipc)
          => /\ C24_Requested
             /\ icalls'[Len(icalls')].call
                   = (IF itarget = "manageable" THEN "PUT manage" ELSE "PUT provide")
             /\ itarget \in {"manageable", "available"}
    /\ C24_Requested
          => /\ ipc = "wps_put"
             /\ icalls # <<>>
             /\ icalls[Len(icalls)].call = "GET node"
    /\ ipc = "wps_poll" => ipc' # "wps_put"

FirstOf(calls, kinds) ==
    IF ICallsOf(calls, kinds) = {} THEN 0
    ELSE CHOOSE i \in ICallsOf(calls, kinds) : \A j \in ICallsOf(calls, kinds) : i <= j

\* C25: ordering on the node create path. Once process has sent the node
\* create: every transition request follows it, the first 'provide' follows
\* the first 'manage', the port read follows both; 'provide' has been
\* requested only for a node that has been manageable, and Success is
\* returned only for a node that has been available. A created node starts
\* in enroll and never returns to it, so a node still in enroll has been
\* observed neither manageable nor available.
C25_Order ==
    LET create  == FirstOf(icalls, {"POST node"})
        manage  == FirstOf(icalls, {"PUT manage"})
        provide == FirstOf(icalls, {"PUT provide"})
        ports   == FirstOf(icalls, {"GET ports"})
    IN /\ manage # 0 => create < manage
       /\ provide # 0 => (manage # 0 /\ manage < provide)
       /\ ports # 0 => (provide # 0 /\ provide < ports)

C25_AsClaimed ==
    ICallsOf(icalls, {"POST node"}) # {}
        => /\ C25_Order
           /\ ICallsOf(icalls, {"PUT provide"}) # {} => inode.provision_state # "enroll"
           /\ (ipc = "done" /\ iresult.kind = "success")
                 => inode.provision_state # "enroll"

\* C26: the node PATCH is sent only to a node whose provision state is
\* manageable at that moment, so never after a move to manageable that timed
\* out or was refused; and an invocation that sent the PATCH and had every
\* request answered has asked for 'provide' after it.
C26_Step ==
    /\ (Len(icalls') > Len(icalls) /\ icalls'[Len(icalls')].call = "PATCH node")
          => inode.provision_state = "manageable"
    /\ (ipc # "done" /\ ipc' = "done" /\ ifaults' = <<>>
          /\ ICallsOf(icalls', {"PATCH node"}) # {})
          => \E i \in ICallsOf(icalls', {"PUT provide"}) :
                i > FirstOf(icalls', {"PATCH node"})

C26_AsClaimed == [][C26_Step]_vars

\* The MACs of the interfaces marked enabled, and those of the ports Ironic
\* holds, both compared without regard to case as MAC addresses are.
EnabledMacs(interfaces) ==
    {Lower(interfaces[i].mac_address) :
        i \in {j \in 1..Len(interfaces) : interfaces[j].enabled}}

PortMacs(ports) == {Lower(p.address) : p \in ports}

\* C28: port reconciliation by MAC. When _do_port_updates has read the
\* ports, the ports to add are the enabled interfaces without a port and the
\* ports to remove are the ports without an enabled interface; and when
\* process returns Success, the ports Ironic holds are exactly those of the
\* enabled interfaces.
C28_Step ==
    /\ (ipc = "ports" /\ ipc' # "ports" /\ iresult'.kind # "raise")
          => /\ itodo'.add = EnabledMacs(ihw.interfaces) \ PortMacs(iports)
             /\ itodo'.remove = PortMacs(iports) \ EnabledMacs(ihw.interfaces)
    /\ (ipc # "done" /\ ipc' = "done" /\ iresult'.kind = "success")
          => PortMacs(iports') = EnabledMacs(ihw.interfaces)

C28_PortReconciliation == [][C28_Step]_vars

\* A port added for the enabled interface and the port of the disabled one
\* removed, in one invocation that returned Success.
C28_Witness ==
    /\ ipc = "done"
    /\ iresult.kind = "success"
    /\ Len(ihw.interfaces) = 2
    /\ ICallsOf(icalls, {"POST port"}) # {}
    /\ ICallsOf(icalls, {"DELETE port"}) # {}
    /\ PortMacs(iports) = {"aa"}

\* Whether some port has to be created, patched or deleted to bring the
\* ports to the enabled interfaces.
PortChangeNeeded(ports, interfaces) ==
    \/ EnabledMacs(interfaces) # PortMacs(ports)
    \/ \E p \in ports :
          /\ Lower(p.address) \in EnabledMacs(interfaces)
          /\ PortPatch(p, IfaceByMac(interfaces, Lower(p.address))) # {}

C29_PortRequest ==
    /\ Len(icalls') > Len(icalls)
    /\ icalls'[Len(icalls')].call \in {"POST port", "PATCH port", "DELETE port"}

\* C29: port changes are bracketed. When _do_port_updates has read the
\* ports it sets out to move the node to manageable if and only if some port
\* has to be created, patched or deleted; every port create, patch and
\* delete is sent after it set out to do so; and when the port loops are
\* through after one, the node is taken back to available.
C29_Step ==
    /\ (ipc = "ports" /\ ipc' # "ports" /\ iresult'.kind # "raise")
          => ((ipc' = "wps_get" /\ itarget' = "manageable")
                <=> PortChangeNeeded(iports, ihw.interfaces))
    /\ C29_PortRequest => ineeds
    /\ (ipc = "port_ops" /\ ipc' # "port_ops" /\ iresult'.kind # "raise"
          /\ ICallsOf(icalls, {"POST port", "PATCH port", "DELETE port"}) # {})
          => (ipc' = "wps_get" /\ itarget' = "available")

C29_AsClaimed == [][C29_Step]_vars

(***************************************************************************)
(* PART 2b. The node patch of _do_node_update as a function of the node    *)
(* read and the desired state, over every shape of driver_info.            *)
(***************************************************************************)
\* driver_info keys desired_state always carries, and one it never does.
ManagedKeys == {"ipmi_address", "deploy_kernel"}

InfoValues == {Null, "v1", "v2"}

\* driver_info as Ironic may hold it: any of the keys missing, null or set.
ExistingInfos ==
    {Restrict(f, S) : f \in [ManagedKeys \cup {"x"} -> InfoValues],
                      S \in SUBSET (ManagedKeys \cup {"x"})}

\* driver_info of desired_state: every managed key, None where the hardware
\* has no such property.
DesiredInfos == [ManagedKeys -> InfoValues]

PInit ==
    /\ pexisting \in {[name |-> n, driver_info |-> di] :
                          n \in {"n1", "n2"}, di \in ExistingInfos}
    /\ pdesired \in {[name |-> "n1", driver_info |-> di] : di \in DesiredInfos}
    /\ ppatch = {}
    /\ ppc = "idle"

PIdle ==
    /\ pexisting = [name |-> "n1", driver_info |-> EmptyMap]
    /\ pdesired = [name |-> "n1", driver_info |-> DriverInfo(Null, Null)]
    /\ ppatch = {}
    /\ ppc = "returned"

\* _do_node_update: normalisation and jsonpatch.make_patch.
MakePatch ==
    /\ ppc = "idle"
    /\ ppatch' = NodePatch(pexisting, pdesired)
    /\ ppc' = "patched"
    /\ UNCHANGED <<pexisting, pdesired>>
    /\ UNCHANGED notPatch

\* _do_node_update: an empty patch returns without a request.
SkipWrite ==
    /\ ppc = "patched"
    /\ ppatch = {}
    /\ ppc' = "returned"
    /\ UNCHANGED <<pexisting, pdesired, ppatch>>
    /\ UNCHANGED notPatch

\* _do_node_update: PATCH /nodes/{uuid}, applied by Ironic.
SendPatch ==
    /\ ppc = "patched"
    /\ ppatch # {}
    /\ pexisting' =
          [pexisting EXCEPT
             !.name = IF \E o \in ppatch : o.path = <<"name">>
                      THEN (CHOOSE o \in ppatch : o.path = <<"name">>).value
                      ELSE @,
             !.driver_info = ApplyDictPatch("driver_info", @, ppatch)]
    /\ ppc' = "sent"
    /\ UNCHANGED <<pdesired, ppatch>>
    /\ UNCHANGED notPatch

PNext == MakePatch \/ SkipWrite \/ SendPatch

\* The value a dict holds for a key, None when it has no such key.
Held(dict, k) == IF k \in DOMAIN dict THEN dict[k] ELSE Null

\* The nested fields in which two dicts differ as they stand.
DifferingFields(existing, desired) ==
    {k \in (DOMAIN existing) \cup (DOMAIN desired) :
        \/ k \notin DOMAIN existing
        \/ k \notin DOMAIN desired
        \/ existing[k] # desired[k]}

\* The nested fields the desired state carries whose desired value is not the
\* one the node holds, no key and null both being no value.
ManagedDifference(existing, desired) ==
    {k \in DOMAIN desired : Held(existing, k) # desired[k]}

\* The one operation that brings field k of driver_info to its desired value.
ExpectedOp(existing, desired, k) ==
    [op |-> IF desired[k] = Null THEN "remove"
            ELSE IF k \in DOMAIN existing THEN "replace" ELSE "add",
     path |-> <<"driver_info", k>>,
     value |-> desired[k]]

\* C14: patch minimality. When the node read and the desired state have the
\* same name and exactly one field of driver_info that the desired state
\* carries has a desired value other than the one the node holds (a missing
\* key and null both counting as no value), the computed patch is exactly one
\* operation on that field's path: remove for a desired null, add for a key
\* the node lacks, replace otherwise.
C14_PatchMinimality ==
    (/\ ppc = "patched"
     /\ pexisting.name = pdesired.name
     /\ Cardinality(ManagedDifference(pexisting.driver_info,
                                      pdesired.driver_info)) = 1)
        => \E k \in ManagedKeys :
              /\ ManagedDifference(pexisting.driver_info,
                                   pdesired.driver_info) = {k}
              /\ ppatch = {ExpectedOp(pexisting.driver_info,
                                      pdesired.driver_info, k)}

\* C14's case: one managed field differs on a node that also holds a key the
\* inventory does not manage, and the patch has been computed.
C14_Witness ==
    /\ ppc = "patched"
    /\ pexisting.name = pdesired.name
    /\ "x" \in DOMAIN pexisting.driver_info
    /\ ManagedDifference(pexisting.driver_info, pdesired.driver_info)
          = {"ipmi_address"}
    /\ Cardinality(ppatch) = 1

\* C14 as stated: whenever the node read and the desired state differ in
\* exactly one nested field, the patch is exactly one operation and it
\* targets that field's path.
C14_AsClaimed ==
    (/\ ppc = "patched"
     /\ pexisting.name = pdesired.name
     /\ Cardinality(DifferingFields(pexisting.driver_info,
                                    pdesired.driver_info)) = 1)
        => /\ Cardinality(ppatch) = 1
           /\ \A o \in ppatch :
                 /\ Len(o.path) = 2
                 /\ o.path[1] = "driver_info"
                 /\ DifferingFields(pexisting.driver_info,
                                    pdesired.driver_info) = {o.path[2]}

\* The operations of a patch on one key of driver_info.
OpsOn(patch, k) == {o \in patch : o.path = <<"driver_info", k>>}

\* C27: normalisation of a nested map before the patch is made. For every
\* key: one the node holds and the desired state does not carry gets no
\* operation; one whose desired value is null while the node holds a value
\* gets exactly a 'remove'; one whose desired value is null while the node
\* has no such key, or holds null for it, gets no operation.
C27_Normalization ==
    ppc = "patched"
        => \A k \in ManagedKeys \cup {"x"} :
              LET ex == pexisting.driver_info
                  de == pdesired.driver_info
              IN /\ (k \in DOMAIN ex /\ k \notin DOMAIN de) => OpsOn(ppatch, k) = {}
                 /\ (k \in DOMAIN de /\ de[k] = Null /\ k \in DOMAIN ex /\ ex[k] # Null)
                       => OpsOn(ppatch, k)
                             = {[op |-> "remove", path |-> <<"driver_info", k>>,
                                 value |-> Null]}
                 /\ (k \in DOMAIN de /\ de[k] = Null
                       /\ (k \notin DOMAIN ex \/ ex[k] = Null))
                       => OpsOn(ppatch, k) = {}

\* The three cases in one patch: x held by the node only, ipmi_address set
\* on the node and null in the desired state, deploy_kernel null on both.
C27_Witness ==
    /\ ppc = "patched"
    /\ pexisting.driver_info
          = [k \in ManagedKeys \cup {"x"} |->
                IF k = "deploy_kernel" THEN Null ELSE "v1"]
    /\ pdesired.driver_info = [k \in ManagedKeys |-> Null]
    /\ Cardinality(ppatch) = 1

(***************************************************************************)
(* PART 3.  Reservation integration: doni/driver/worker/blazar/__init__.py *)
(* Times are counted in half minutes, so that a time has a part below the  *)
(* minute for strftime to drop.                                            *)
(***************************************************************************)
\* Bound: invocations of process on one Task.
MaxRounds == 3

\* Bound: the latest value of the clock.
MaxNow == 3

AW_LEASE_PREFIX == "availability_window_"

\* strftime(BLAZAR_DATE_FORMAT): the minute of a time; seconds are dropped.
BlazarDate(t) == t \div 2

\* dateutil parse of a Blazar date: the time at the start of that minute.
ParseDate(d) == d * 2

\* aw.start.replace(second=0, microsecond=0)
TruncMinute(t) == (t \div 2) * 2

\* The lease name of a window: the prefix and the window's uuid. A name is
\* kept as the pair, so that startswith is a test on its first part.
LeaseName(uuid) == <<AW_LEASE_PREFIX, uuid>>

\* to_lease(aw)
to_lease(aw) ==
    [name |-> LeaseName(aw.uuid), start_date |-> BlazarDate(aw.start),
     end_date |-> BlazarDate(aw.end), reservations |-> aw.hardware_uuid]

\* lease_for_update.items() <= matching_lease.items(), lease_for_update being
\* the new lease without its reservations.
LeaseUpToDateByName(new, lease) == new.name = lease.name

LeaseUpToDate(new, lease) ==
    /\ new.name = lease.name
    /\ new.start_date = lease.start_date
    /\ new.end_date = lease.end_date

\* The late-start case: the lease has begun and the window now starts later.
LateStartAnyTime(aw, lease, now) ==
    TruncMinute(aw.start) > ParseDate(lease.start_date)

LateStart(aw, lease, now) ==
    /\ ParseDate(lease.start_date) < now
    /\ TruncMinute(aw.start) > ParseDate(lease.start_date)

\* _lease_list: the leases with the prefix whose reservations name the hardware.
IsWindowLeaseAnyHardware(lease, hw) == lease.name[1] = AW_LEASE_PREFIX

IsWindowLease(lease, hw) ==
    /\ lease.name[1] = AW_LEASE_PREFIX
    /\ lease.reservations = hw.uuid

\* The first index of leases_to_check whose name is the new lease's; 0 if none.
MatchingIndex(check, new) ==
    IF \E i \in 1..Len(check) : check[i].name = new.name
    THEN CHOOSE i \in 1..Len(check) :
            /\ check[i].name = new.name
            /\ \A j \in 1..(i - 1) : check[j].name # new.name
    ELSE 0

\* list.pop(index)
PopNothing(q, i) == q

Pop(q, i) == [j \in 1..(Len(q) - 1) |-> IF j < i THEN q[j] ELSE q[j + 1]]

\* The orders in which Blazar may list a set of leases.
Orderings(S) ==
    {q \in [1..Cardinality(S) -> S] : \A x \in S : \E i \in DOMAIN q : q[i] = x}

\* process: state_details.get("blazar_resource_id")
ResourceId(details) ==
    IF "blazar_resource_id" \in DOMAIN details
    THEN details["blazar_resource_id"] ELSE Null

\* process: expected_state, the properties that are not None.
ExpectedState(hw) ==
    LET all == [k \in {"authorized_projects", "restricted_reason"} |->
                   IF k = "authorized_projects" THEN hw.authorized_projects
                   ELSE hw.authorized_projects_reason]
    IN Restrict(all, {k \in DOMAIN all : all[k] # Null})

\* _resource_update: some expected attribute differs from the fetched one.
Differs(existing, expected) ==
    \E k \in DOMAIN expected :
        (IF k \in DOMAIN existing THEN existing[k] ELSE Null) # expected[k]

DiffersAlways(existing, expected) == TRUE

NeedsWrite(existing, expected) == Differs(existing, expected)

\* What Blazar holds for a resource after a PUT of the expected state.
Updated(existing, expected) ==
    [k \in (DOMAIN existing) \cup (DOMAIN expected) |->
        IF k \in DOMAIN expected THEN expected[k] ELSE existing[k]]

\* to_resource_pk(hardware)
to_resource_pk(hw) == hw.uuid

\* _find_resource: the resource of that name, if any.
HasResource(hosts, name) == \E h \in hosts : h.name = name

FindResource(hosts, name) == CHOOSE h \in hosts : h.name = name

HostById(hosts, id) == CHOOSE h \in hosts : h.id = id

\* The Results of the worker.
BSuccess(payload) == [kind |-> "success", payload |-> payload, reason |-> ""]

BDefer(payload, reason) == [kind |-> "defer", payload |-> payload, reason |-> reason]

BRaised(what) == [kind |-> "raise", payload |-> EmptyMap, reason |-> what]

BNoResult == [kind |-> None, payload |-> EmptyMap, reason |-> ""]

\* The payloads: the cached id, with the time the service reports beside it.
IdPayloadLeftOut(id) == EmptyMap

IdPayload(id) == [k \in {"blazar_resource_id"} |-> id]

CreatedPayload(id) ==
    [k \in {"blazar_resource_id", "resource_created_at"} |->
        IF k = "blazar_resource_id" THEN id ELSE "t"]

UpdatedPayload(id) ==
    [k \in {"blazar_resource_id", "resource_updated_at"} |->
        IF k = "blazar_resource_id" THEN id ELSE "t"]

DeletedPayload ==
    [k \in {"blazar_resource_id", "resource_created_at", "resource_deleted_at"} |->
        IF k = "resource_deleted_at" THEN "t" ELSE Null]

\* _resource_create on a 409: the payload caches the id of the resource found.
ConflictPayloadEmpty(found) == EmptyMap

ConflictPayload(found) == IdPayload(found.id)

\* _resource_update on a 409: a Defer with an empty payload.
ActiveLeasesDeferClearsId ==
    BDefer(IdPayload(Null), "Active leases exist for resource")

ActiveLeasesDefer == BDefer(EmptyMap, "Active leases exist for resource")

\* process: where it starts, by hardware.deleted and the cached id.
FirstStep(hw, details) ==
    IF hw.deleted THEN "lease_list"
    ELSE IF ResourceId(details) # Null THEN "res_get"
    ELSE "res_create"

(***************************************************************************)
(* The hardware, windows and Blazar contents process is run against.       *)
(***************************************************************************)
BHardwares ==
    {[uuid |-> "h1", deleted |-> d, authorized_projects |-> ap,
      authorized_projects_reason |-> IF ap = Null THEN Null ELSE "r1"] :
         d \in BOOLEAN, ap \in {Null, "p1"}}

Window(uuid, start, end) ==
    [uuid |-> uuid, hardware_uuid |-> "h1", start |-> start, end |-> end]

WindowLists ==
    {<<>>,
     <<Window("w1", 4, 8)>>,
     <<Window("w1", 5, 8)>>,
     <<Window("w1", 2, 9)>>,
     <<Window("w1", 4, 8), Window("w2", 8, 11)>>}

Lease(id, name, start, end, hw) ==
    [id |-> id, name |-> name, start_date |-> start, end_date |-> end,
     reservations |-> hw]

\* Leases Blazar may hold at first: the lease of w1 as desired, the same begun
\* earlier, a lease of a window that is gone, and leases that are not this
\* hardware's windows.
LeaseSets ==
    LET same == Lease("l1", LeaseName("w1"), 2, 4, "h1")
        early == Lease("l1", LeaseName("w1"), 1, 4, "h1")
        gone == Lease("l9", LeaseName("w9"), 2, 4, "h1")
        other == Lease("l8", LeaseName("w1"), 1, 4, "h2")
        user == Lease("l7", <<"lease_", "w1">>, 1, 4, "h1")
    IN {{}, {same}, {early}, {gone, same}, {early, other, user}}

Host(id, name, attrs) == [id |-> id, name |-> name, attrs |-> attrs]

HostSets ==
    {{},
     {Host("5", "h1", [k \in {"authorized_projects", "restricted_reason"} |->
                          IF k = "authorized_projects" THEN "p1" ELSE "r1"])},
     {Host("5", "h1", [k \in {"authorized_projects"} |-> "p0"])}}

NewHostId == "7"

\* The statuses Blazar may answer with: the one its contents call for, or an
\* error while the fault budget lasts.
BStatuses(truth, errors) ==
    {truth} \cup (IF Len(bfaults) < MaxFaults THEN errors ELSE {})

BFault(st, truth) ==
    bfaults' = IF st = truth THEN bfaults
               ELSE Append(bfaults, [round |-> bround, at |-> Len(bcalls) + 1,
                                     status |-> st])

BInit ==
    /\ bhw \in BHardwares
    /\ bwindows \in WindowLists
    /\ bhosts \in HostSets
    /\ bdetails \in {EmptyMap, IdPayload("5")}
    /\ bleases \in LeaseSets
    /\ bnow \in {0, MaxNow}
    /\ bpc = FirstStep(bhw, bdetails)
    /\ bresres = BNoResult
    /\ bcheck = <<>>
    /\ bleft = <<>>
    /\ bdeferred = FALSE
    /\ bcalls = <<>>
    /\ bresult = BNoResult
    /\ bprev = BNoResult
    /\ bround = 1
    /\ bquiet = FALSE
    /\ bconflict = FALSE
    /\ bfaults = <<>>
    /\ blisted = {}

\* The Blazar machine at rest, for the specifications of the other machines.
BIdle ==
    /\ bhw = [uuid |-> "h1", deleted |-> FALSE, authorized_projects |-> Null,
              authorized_projects_reason |-> Null]
    /\ bwindows = <<>>
    /\ bhosts = {}
    /\ bdetails = EmptyMap
    /\ bleases = {}
    /\ bnow = 0
    /\ bpc = "done"
    /\ bresres = BNoResult
    /\ bcheck = <<>>
    /\ bleft = <<>>
    /\ bdeferred = FALSE
    /\ bcalls = <<>>
    /\ bresult = BNoResult
    /\ bprev = BNoResult
    /\ bround = MaxRounds
    /\ bquiet = FALSE
    /\ bconflict = FALSE
    /\ bfaults = <<>>
    /\ blisted = {}

\* process returns, or raises.
ReturnDeferGoesOn(res) ==
    /\ bpc' = IF res.kind = "defer" THEN "lease_list" ELSE "done"
    /\ bresult' = res

Return(res) ==
    /\ bpc' = "done"
    /\ bresult' = res

\* What no step of process touches.
bfixed == <<bhw, bwindows, bdetails, bnow, bprev, bround, bquiet, bconflict>>

(***************************************************************************)
(* Actions of the Blazar machine: the resource step.                       *)
(***************************************************************************)
\* _resource_create: POST of the resource. Blazar answers 409 when it holds a
\* resource of that name.
ResourceCreate ==
    /\ bpc = "res_create"
    /\ LET name == to_resource_pk(bhw)
           truth == IF HasResource(bhosts, name) THEN "409" ELSE "201"
       IN \E st \in BStatuses(truth, {"404", "409", "500"}) :
             /\ BFault(st, truth)
             /\ bcalls' = Append(bcalls, Sent("POST host", {}))
             /\ CASE st = "201" ->
                       /\ bhosts' = bhosts \cup
                              {Host(NewHostId, name, ExpectedState(bhw))}
                       /\ bresres' = BSuccess(CreatedPayload(NewHostId))
                       /\ bpc' = "lease_list"
                       /\ UNCHANGED bresult
                  [] st = "404" ->
                       /\ Return(BDefer(EmptyMap, "entity not found"))
                       /\ UNCHANGED <<bhosts, bresres>>
                  [] st = "409" ->
                       /\ bpc' = "find"
                       /\ UNCHANGED <<bhosts, bresres, bresult>>
                  [] OTHER ->
                       /\ Return(BRaised(st))
                       /\ UNCHANGED <<bhosts, bresres>>
    /\ UNCHANGED <<bleases, bcheck, bleft, bdeferred>>
    /\ UNCHANGED <<bfixed, blisted>>
    /\ UNCHANGED notBlazar

\* _resource_create on a 409: _find_resource lists the resources and looks for
\* the name; the id found is cached by a Defer, none found is an error.
FindAfterConflict ==
    /\ bpc = "find"
    /\ \E st \in BStatuses("200", {"500"}) :
          /\ BFault(st, "200")
          /\ bcalls' = Append(bcalls, Sent("GET hosts", {}))
          /\ IF st # "200"
             THEN Return(BRaised(st))
             ELSE IF HasResource(bhosts, to_resource_pk(bhw))
             THEN Return(BDefer(ConflictPayload(
                                   FindResource(bhosts, to_resource_pk(bhw))), ""))
             ELSE Return(BRaised("BlazarIsWrongError"))
    /\ UNCHANGED <<bhosts, bleases, bresres, bcheck, bleft, bdeferred>>
    /\ UNCHANGED <<bfixed, blisted>>
    /\ UNCHANGED notBlazar

\* _resource_update: GET of the cached resource and the comparison.
ResourceGet ==
    /\ bpc = "res_get"
    /\ LET id == ResourceId(bdetails)
           truth == IF \E h \in bhosts : h.id = id THEN "200" ELSE "404"
       IN \E st \in BStatuses(truth, {"409", "500"}) :
             /\ BFault(st, truth)
             /\ bcalls' = Append(bcalls, Sent("GET host", {}))
             /\ CASE st = "200" ->
                       IF NeedsWrite(HostById(bhosts, id).attrs, ExpectedState(bhw))
                       THEN /\ bpc' = "res_put"
                            /\ UNCHANGED <<bresres, bresult>>
                       ELSE /\ bpc' = "lease_list"
                            /\ bresres' = BSuccess(EmptyMap)
                            /\ UNCHANGED bresult
                  [] st = "404" ->
                       /\ Return(BDefer(IdPayload(Null), "Resource not found"))
                       /\ UNCHANGED bresres
                  [] st = "409" ->
                       /\ Return(ActiveLeasesDefer)
                       /\ UNCHANGED bresres
                  [] OTHER ->
                       /\ Return(BRaised(st))
                       /\ UNCHANGED bresres
    /\ UNCHANGED <<bhosts, bleases, bcheck, bleft, bdeferred>>
    /\ UNCHANGED <<bfixed, blisted>>
    /\ UNCHANGED notBlazar

\* _resource_update: PUT of the expected state.
ResourcePut ==
    /\ bpc = "res_put"
    /\ LET id == ResourceId(bdetails)
           truth == IF \E h \in bhosts : h.id = id THEN "200" ELSE "404"
       IN \E st \in BStatuses(truth, {"409", "500"}) :
             /\ BFault(st, truth)
             /\ bcalls' = Append(bcalls, Sent("PUT host", {}))
             /\ CASE st = "200" ->
                       LET h == HostById(bhosts, id)
                       IN /\ bhosts' = (bhosts \ {h}) \cup
                                 {[h EXCEPT !.attrs =
                                      Updated(@, ExpectedState(bhw))]}
                          /\ bresres' = BSuccess(UpdatedPayload(id))
                          /\ bpc' = "lease_list"
                          /\ UNCHANGED bresult
                  [] st = "404" ->
                       /\ Return(BDefer(IdPayload(Null), "Resource not found"))
                       /\ UNCHANGED <<bhosts, bresres>>
                  [] st = "409" ->
                       /\ Return(ActiveLeasesDefer)
                       /\ UNCHANGED <<bhosts, bresres>>
                  [] OTHER ->
                       /\ Return(BRaised(st))
                       /\ UNCHANGED <<bhosts, bresres>>
    /\ UNCHANGED <<bleases, bcheck, bleft, bdeferred>>
    /\ UNCHANGED <<bfixed, blisted>>
    /\ UNCHANGED notBlazar

(***************************************************************************)
(* Actions of the Blazar machine: process_availability_windows.            *)
(***************************************************************************)
\* _lease_list: GET /leases, filtered. On deleted hardware process passes an
\* empty Success as the resource result.
LeaseList ==
    /\ bpc = "lease_list"
    /\ \E st \in BStatuses("200", {"500"}) :
          /\ BFault(st, "200")
          /\ bcalls' = Append(bcalls, Sent("GET leases", {}))
          /\ IF st # "200"
             THEN Return(BRaised(st)) /\ UNCHANGED <<bcheck, bleft, bresres, blisted>>
             ELSE /\ blisted' = {l \in bleases : IsWindowLease(l, bhw)}
                  /\ bcheck' \in Orderings(blisted')
                  /\ bleft' = bwindows
                  /\ bresres' = IF bhw.deleted THEN BSuccess(EmptyMap) ELSE bresres
                  /\ bpc' = "lease_loop"
                  /\ UNCHANGED bresult
    /\ bdeferred' = FALSE
    /\ UNCHANGED <<bhosts, bleases>>
    /\ UNCHANGED bfixed
    /\ UNCHANGED notBlazar

\* The window in hand, its lease, and the index of the lease matching by name.
NewLease == to_lease(Head(bleft))

Matching == MatchingIndex(bcheck, NewLease)

\* The matching lease already carries the window: popped, nothing sent.
LeaseKeep ==
    /\ bpc = "lease_loop"
    /\ bleft # <<>>
    /\ Matching # 0
    /\ LeaseUpToDate(NewLease, bcheck[Matching])
    /\ bcheck' = Pop(bcheck, Matching)
    /\ bleft' = Tail(bleft)
    /\ UNCHANGED <<bhosts, bleases, bpc, bresres, bdeferred, bcalls, bresult,
                   bfaults>>
    /\ UNCHANGED <<bfixed, blisted>>
    /\ UNCHANGED notBlazar

\* _lease_update: PUT of name, start and end on the matching lease.
LeaseUpdate ==
    /\ bpc = "lease_loop"
    /\ bleft # <<>>
    /\ Matching # 0
    /\ ~LeaseUpToDate(NewLease, bcheck[Matching])
    /\ ~LateStart(Head(bleft), bcheck[Matching], bnow)
    /\ \E st \in BStatuses("200", {"404", "409", "500"}) :
          /\ BFault(st, "200")
          /\ bcalls' = Append(bcalls, Sent("PUT lease", {}))
          /\ CASE st = "200" ->
                    /\ bleases' = (bleases \ {bcheck[Matching]}) \cup
                           {[bcheck[Matching] EXCEPT
                               !.start_date = NewLease.start_date,
                               !.end_date = NewLease.end_date]}
                    /\ UNCHANGED <<bdeferred, bpc, bresult>>
               [] st \in {"404", "409"} ->
                    /\ bdeferred' = TRUE
                    /\ UNCHANGED <<bleases, bpc, bresult>>
               [] OTHER ->
                    /\ Return(BRaised(st))
                    /\ UNCHANGED <<bleases, bdeferred>>
    /\ bcheck' = Pop(bcheck, Matching)
    /\ bleft' = Tail(bleft)
    /\ UNCHANGED <<bhosts, bresres>>
    /\ UNCHANGED <<bfixed, blisted>>
    /\ UNCHANGED notBlazar

\* The late-start case, first half: _lease_delete of the matching lease.
LeaseReplace ==
    /\ bpc = "lease_loop"
    /\ bleft # <<>>
    /\ Matching # 0
    /\ ~LeaseUpToDate(NewLease, bcheck[Matching])
    /\ LateStart(Head(bleft), bcheck[Matching], bnow)
    /\ \E st \in BStatuses("200", {"409", "500"}) :
          /\ BFault(st, "200")
          /\ bcalls' = Append(bcalls, Sent("DELETE lease", {}))
          /\ IF st = "200"
             THEN /\ bleases' = bleases \ {bcheck[Matching]}
                  /\ bpc' = "late_create"
                  /\ UNCHANGED bresult
             ELSE /\ Return(BRaised(st))
                  /\ UNCHANGED bleases
    /\ bcheck' = Pop(bcheck, Matching)
    /\ UNCHANGED <<bhosts, bresres, bleft, bdeferred>>
    /\ UNCHANGED <<bfixed, blisted>>
    /\ UNCHANGED notBlazar

\* _lease_create: POST of the new lease, for a window without a matching lease
\* and as the second half of the late-start case.
LeaseCreate ==
    /\ \/ bpc = "late_create"
       \/ bpc = "lease_loop" /\ bleft # <<>> /\ Matching = 0
    /\ \E st \in BStatuses("201", {"404", "409", "500"}) :
          /\ BFault(st, "201")
          /\ bcalls' = Append(bcalls, Sent("POST lease", {}))
          /\ CASE st = "201" ->
                    /\ bleases' = bleases \cup
                           {Lease(Head(bleft).uuid, NewLease.name,
                                  NewLease.start_date, NewLease.end_date,
                                  NewLease.reservations)}
                    /\ bpc' = "lease_loop"
                    /\ UNCHANGED <<bdeferred, bresult>>
               [] st \in {"404", "409"} ->
                    /\ bdeferred' = TRUE
                    /\ bpc' = "lease_loop"
                    /\ UNCHANGED <<bleases, bresult>>
               [] OTHER ->
                    /\ Return(BRaised(st))
                    /\ UNCHANGED <<bleases, bdeferred>>
    /\ bleft' = Tail(bleft)
    /\ UNCHANGED <<bhosts, bresres, bcheck>>
    /\ UNCHANGED <<bfixed, blisted>>
    /\ UNCHANGED notBlazar

\* _lease_delete of a lease left in leases_to_check after the windows.
LeaseCleanup ==
    /\ bpc = "lease_loop"
    /\ bleft = <<>>
    /\ bcheck # <<>>
    /\ \E st \in BStatuses("200", {"409", "500"}) :
          /\ BFault(st, "200")
          /\ bcalls' = Append(bcalls, Sent("DELETE lease", {}))
          /\ IF st = "200"
             THEN /\ bleases' = bleases \ {Head(bcheck)}
                  /\ UNCHANGED <<bpc, bresult>>
             ELSE /\ Return(BRaised(st))
                  /\ UNCHANGED bleases
    /\ bcheck' = Tail(bcheck)
    /\ UNCHANGED <<bhosts, bresres, bleft, bdeferred>>
    /\ UNCHANGED <<bfixed, blisted>>
    /\ UNCHANGED notBlazar

\* process_availability_windows returns: a Defer with the resource payload if
\* a lease result was a Defer, else the resource result.
LeaseResultKeepsResource == bresres

LeaseResultDropsPayload ==
    IF bdeferred
    THEN BDefer(EmptyMap, "One or more availability window leases failed to update")
    ELSE bresres

LeaseResult ==
    IF bdeferred
    THEN BDefer(bresres.payload,
                "One or more availability window leases failed to update")
    ELSE bresres

\* The end of process: on live hardware the lease result is returned; on
\* deleted hardware a Defer is returned, a missing cached id is an error, and
\* else the resource is deleted next.
LeasesDone ==
    /\ bpc = "lease_loop"
    /\ bleft = <<>>
    /\ bcheck = <<>>
    /\ IF ~bhw.deleted \/ LeaseResult.kind # "success"
       THEN Return(LeaseResult)
       ELSE IF ResourceId(bdetails) = Null
       THEN Return(BRaised("BlazarIsWrongError"))
       ELSE bpc' = "res_delete" /\ UNCHANGED bresult
    /\ UNCHANGED <<bhosts, bleases, bresres, bcheck, bleft, bdeferred, bcalls,
                   bfaults>>
    /\ UNCHANGED <<bfixed, blisted>>
    /\ UNCHANGED notBlazar

\* _resource_delete, and the Success that clears the cached id.
ResourceDelete ==
    /\ bpc = "res_delete"
    /\ LET id == ResourceId(bdetails)
           truth == IF \E h \in bhosts : h.id = id THEN "200" ELSE "404"
       IN \E st \in BStatuses(truth, {"409", "500"}) :
             /\ BFault(st, truth)
             /\ bcalls' = Append(bcalls, Sent("DELETE host", {}))
             /\ IF st = "200"
                THEN /\ bhosts' = bhosts \ {HostById(bhosts, id)}
                     /\ Return(BSuccess(DeletedPayload))
                ELSE /\ Return(BRaised(st))
                     /\ UNCHANGED bhosts
    /\ UNCHANGED <<bleases, bresres, bcheck, bleft, bdeferred>>
    /\ UNCHANGED <<bfixed, blisted>>
    /\ UNCHANGED notBlazar

(***************************************************************************)
(* Around process: the Manager's next invocation, and the world.           *)
(***************************************************************************)
\* The Defer of _resource_create after a 409: an id cached, no reason given.
IsConflictDefer(res) ==
    /\ res.kind = "defer"
    /\ res.reason = ""
    /\ ResourceId(res.payload) # Null

\* The Manager merges the payload of a Success or a Defer into state_details
\* and later invokes process again, on the same hardware and windows.
Reinvoke ==
    /\ bpc = "done"
    /\ bround < MaxRounds
    /\ bdetails' = IF bresult.kind \in {"success", "defer"}
                   THEN MergePayload(bdetails, bresult.payload)
                   ELSE bdetails
    /\ bprev' = bresult
    /\ bround' = bround + 1
    /\ bquiet' = TRUE
    /\ bconflict' = (bconflict \/ IsConflictDefer(bresult))
    /\ bpc' = FirstStep(bhw, bdetails')
    /\ bresres' = BNoResult
    /\ bcheck' = <<>>
    /\ bleft' = <<>>
    /\ bdeferred' = FALSE
    /\ bcalls' = <<>>
    /\ bresult' = BNoResult
    /\ blisted' = {}
    /\ UNCHANGED <<bhw, bwindows, bhosts, bleases, bnow, bfaults>>
    /\ UNCHANGED notBlazar

\* Someone removes the resource from Blazar between two invocations.
ExternalRemove ==
    /\ bpc = "done"
    /\ bround < MaxRounds
    /\ \E h \in bhosts : bhosts' = bhosts \ {h}
    /\ bquiet' = FALSE
    /\ UNCHANGED <<bhw, bwindows, bdetails, bleases, bnow, bpc, bresres, bcheck,
                   bleft, bdeferred, bcalls, bresult, bprev, bround, bconflict,
                   bfaults, blisted>>
    /\ UNCHANGED notBlazar

\* Time passes between two invocations.
BTick ==
    /\ bpc = "done"
    /\ bround < MaxRounds
    /\ bnow < MaxNow
    /\ bnow' = bnow + 1
    /\ UNCHANGED <<bhw, bwindows, bdetails, bhosts, bleases, bpc, bresres, bcheck,
                   bleft, bdeferred, bcalls, bresult, bprev, bround, bquiet,
                   bconflict, bfaults, blisted>>
    /\ UNCHANGED notBlazar

BNext ==
    \/ ResourceCreate
    \/ FindAfterConflict
    \/ ResourceGet
    \/ ResourcePut
    \/ LeaseList
    \/ LeaseKeep
    \/ LeaseUpdate
    \/ LeaseReplace
    \/ LeaseCreate
    \/ LeaseCleanup
    \/ LeasesDone
    \/ ResourceDelete
    \/ Reinvoke
    \/ ExternalRemove
    \/ BTick

(***************************************************************************)
(* Claims on the Blazar machine.                                           *)
(***************************************************************************)
Creates(calls) == {i \in 1..Len(calls) : calls[i].call = "POST host"}

\* The second of two invocations in a row on live hardware: nothing but the
\* merge of the first one's payload happened to Blazar or the Task between.
SecondInARow == bround >= 2 /\ bquiet /\ ~bhw.deleted

C8_SkipStep ==
    (/\ bpc = "res_get"
     /\ \E h \in bhosts : h.id = ResourceId(bdetails)
     /\ ~Differs(HostById(bhosts, ResourceId(bdetails)).attrs, ExpectedState(bhw)))
        => bpc' # "res_put"

C8_Second == (SecondInARow /\ bprev.kind = "success") => Mutating(bcalls) = {}

\* C8: idempotence of the reservation integration on live hardware. An
\* invocation of process that follows one that returned Success, on the same
\* hardware and windows and with that payload merged into state_details, sends
\* no mutating request; and no step goes on to write the resource when no
\* expected attribute differs from the one fetched.
C8_IdempotentAfterSuccess == [][C8_SkipStep]_vars /\ []C8_Second

\* C8's case: the first invocation created the resource and the leases of the
\* windows and returned Success; the second one has read the resource and the
\* leases, and returned.
C8_Witness ==
    /\ SecondInARow
    /\ bprev = BSuccess(CreatedPayload(NewHostId))
    /\ Len(bwindows) = 2
    /\ ExpectedState(bhw) # EmptyMap
    /\ bpc = "done"
    /\ bresult.kind = "success"
    /\ Len(bcalls) = 2

\* C8 as stated: the second of two invocations in a row sends no mutating
\* request, whatever Result the first one has produced its payload with.
C8_AsClaimed ==
    (SecondInARow /\ bprev.kind \in {"success", "defer"}) => Mutating(bcalls) = {}

C9_Lookup ==
    (/\ bpc = "find"
     /\ HasResource(bhosts, to_resource_pk(bhw))
     /\ bfaults' = bfaults)
        => /\ bcalls' = Append(bcalls, Sent("GET hosts", {}))
           /\ bresult'.kind = "defer"
           /\ bresult'.payload =
                 IdPayload(FindResource(bhosts, to_resource_pk(bhw)).id)

C9_KeepsId ==
    (ResourceId(bdetails) # Null /\ ResourceId(bdetails') = Null)
        => \/ bresult.reason = "Resource not found"
           \/ bresult = BSuccess(DeletedPayload)

C9_NoCreateWhileCached ==
    (bconflict /\ ResourceId(bdetails) # Null) => Creates(bcalls) = {}

\* C9: no duplicate creation. A create answered 409 while Blazar holds a
\* resource of that name is followed by the lookup by name, and the Defer
\* returned caches exactly the id of that resource. Once merged, the id leaves
\* state_details only through an update answered "not found" or through the
\* deletion of the hardware, and no invocation sends a create while an id is
\* cached.
C9_NoDuplicateCreate ==
    [][C9_Lookup /\ C9_KeepsId]_vars /\ []C9_NoCreateWhileCached

\* C9's case: a create conflict cached the id of the resource Blazar held, and
\* a later invocation has gone through the update path with it.
C9_Witness ==
    /\ bconflict
    /\ ResourceId(bdetails) = "5"
    /\ bpc = "done"
    /\ bresult.kind = "success"
    /\ bcalls[1].call = "GET host"
    /\ Creates(bcalls) = {}

\* C9 as stated: once the payload of a create conflict is merged, no later
\* invocation sends a create for the resource.
C9_AsClaimed == bconflict => Creates(bcalls) = {}

\* The lease requests of an invocation, by kind.
CallsOf(calls, kind) == {i \in 1..Len(calls) : calls[i].call = kind}

LeaseCalls(calls) ==
    CallsOf(calls, "POST lease") \cup CallsOf(calls, "PUT lease")
      \cup CallsOf(calls, "DELETE lease")

\* The two loops of process_availability_windows have run to their end.
LeaseLoopsDone == bpc = "lease_loop" /\ bleft = <<>> /\ bcheck = <<>>

\* The windows and the listed leases, sorted as the claim sorts them: windows
\* no listed lease is named after, listed leases named after a window whose
\* start or end is not the window's, listed leases no window is named after.
NamedAfter(lease, aw) == lease.name = LeaseName(aw.uuid)

UnmatchedWindows ==
    {i \in DOMAIN bwindows : \A l \in blisted : ~NamedAfter(l, bwindows[i])}

DiffersFromWindow(lease, aw) ==
    \/ lease.start_date # BlazarDate(aw.start)
    \/ lease.end_date # BlazarDate(aw.end)

MatchedDiffering ==
    {l \in blisted : \E i \in DOMAIN bwindows :
        NamedAfter(l, bwindows[i]) /\ DiffersFromWindow(l, bwindows[i])}

\* Among them, those that have begun and whose window starts in a later minute.
BegunAndLater(lease, aw) ==
    /\ ParseDate(lease.start_date) < bnow
    /\ BlazarDate(aw.start) > lease.start_date

MatchedLate ==
    {l \in MatchedDiffering : \E i \in DOMAIN bwindows :
        NamedAfter(l, bwindows[i]) /\ BegunAndLater(l, bwindows[i])}

UnmatchedLeases ==
    {l \in blisted : \A i \in DOMAIN bwindows : ~NamedAfter(l, bwindows[i])}

ChangedCase ==
    /\ bpc = "lease_loop"
    /\ bleft # <<>>
    /\ \E l \in blisted :
          NamedAfter(l, Head(bleft)) /\ DiffersFromWindow(l, Head(bleft))

\* The lease of the window in hand has begun, and the window starts later.
LateStartCase ==
    \E l \in blisted : NamedAfter(l, Head(bleft)) /\ BegunAndLater(l, Head(bleft))

LastCall(calls) == calls[Len(calls)].call

\* In the late-start case the step taken is the delete of the lease, and
\* the create comes next unless the delete was refused, which raises; in any
\* other changed case the step taken is the update alone, and the window is
\* done with.
C16_Step ==
    /\ ChangedCase /\ LateStartCase
          => /\ bcalls' = Append(bcalls, Sent("DELETE lease", {}))
             /\ \/ /\ bpc' = "late_create"
                   /\ bleases' =
                         bleases \ {l \in blisted : NamedAfter(l, Head(bleft))}
                \/ bresult'.kind = "raise"
    /\ bpc = "late_create"
          => /\ LastCall(bcalls) = "DELETE lease"
             /\ bcalls' = Append(bcalls, Sent("POST lease", {}))
             /\ bleft' = Tail(bleft)
    /\ ChangedCase /\ ~LateStartCase
          => /\ bcalls' = Append(bcalls, Sent("PUT lease", {}))
             /\ bleft' = Tail(bleft)
             /\ bpc' # "late_create"

\* C16: late-start special case. For a window whose same-named lease differs
\* from it, has begun (its start is before now) and starts before the window's
\* start at minute precision, the lease is deleted and then the new lease is
\* created, in that order, with no update; for any other window whose lease
\* differs, the one request is the update of that lease, with no delete.
C16_LateStart == [][C16_Step]_vars

\* C16's case: a lease that had begun was deleted and created anew for a
\* window that starts later, and the lease now carries the window's start.
C16_Witness ==
    /\ LeaseLoopsDone
    /\ MatchedLate # {}
    /\ Len(bcalls) >= 2
    /\ bcalls[Len(bcalls) - 1].call = "DELETE lease"
    /\ LastCall(bcalls) = "POST lease"
    /\ CallsOf(bcalls, "PUT lease") = {}
    /\ \E l \in bleases :
          /\ NamedAfter(l, bwindows[1])
          /\ ~DiffersFromWindow(l, bwindows[1])

\* Some request of this invocation, of one of the kinds, got the status.
Answered(kinds, status) ==
    \E n \in DOMAIN bfaults :
        /\ bfaults[n].round = bround
        /\ bfaults[n].status = status
        /\ bfaults[n].at <= Len(bcalls)
        /\ bcalls[bfaults[n].at].call \in kinds

UpdateCalls == {"GET host", "PUT host"}

\* C17: conflict on update. With a resource id cached, when a request of the
\* resource update was answered 409, process has returned a Defer whose reason
\* is that active leases exist; its payload has no entry for the cached id, so
\* the id is the same after the merge; and the invocation listed, created,
\* updated or deleted no lease.
C17_ConflictOnUpdate ==
    (/\ bpc = "done"
     /\ ~bhw.deleted
     /\ ResourceId(bdetails) # Null
     /\ Answered(UpdateCalls, "409"))
        => /\ bresult.kind = "defer"
           /\ bresult.reason = "Active leases exist for resource"
           /\ "blazar_resource_id" \notin DOMAIN bresult.payload
           /\ ResourceId(MergePayload(bdetails, bresult.payload))
                 = ResourceId(bdetails)
           /\ LeaseCalls(bcalls) = {}
           /\ CallsOf(bcalls, "GET leases") = {}

\* C17's case: the PUT of a resource that had to be written was answered 409.
C17_Witness ==
    /\ bpc = "done"
    /\ ResourceId(bdetails) = "5"
    /\ Answered({"PUT host"}, "409")
    /\ LastCall(bcalls) = "PUT host"
    /\ bresult.kind = "defer"

LeasePhaseCalls == {"GET leases", "POST lease", "PUT lease", "DELETE lease"}

\* The lease phase of this invocation has returned Success: the leases were
\* listed, both loops have ended and no request was answered with an error.
LeasePhaseSucceeded ==
    /\ CallsOf(bcalls, "GET leases") # {}
    /\ bleft = <<>>
    /\ bcheck = <<>>
    /\ \A n \in DOMAIN bfaults : bfaults[n].round # bround

ResourceDeleteIssued ==
    Len(bcalls') > Len(bcalls) /\ LastCall(bcalls') = "DELETE host"

C18_Step ==
    /\ ResourceDeleteIssued
          => /\ bhw.deleted
             /\ LeasePhaseSucceeded
             /\ CallsOf(bcalls, "DELETE host") = {}
    /\ ResourceDeleteIssued /\ bhosts' # bhosts
          => /\ bpc' = "done"
             /\ bresult'.kind = "success"
             /\ ResourceId(bresult'.payload) = Null
             /\ ResourceId(MergePayload(bdetails, bresult'.payload)) = Null
    /\ bhw.deleted /\ Answered(LeasePhaseCalls, "404")'
          => CallsOf(bcalls', "DELETE host") = {}
    /\ bhw.deleted /\ Answered(LeasePhaseCalls, "409")'
          => CallsOf(bcalls', "DELETE host") = {}
    /\ bhw.deleted /\ Answered(LeasePhaseCalls, "500")'
          => CallsOf(bcalls', "DELETE host") = {}

\* C18: deletion order. On deleted hardware the delete of the resource is
\* sent only once the lease phase of the same invocation has returned Success;
\* when a request of the lease phase was answered with an error, no resource
\* delete is sent in that invocation; and when Blazar carries out the resource
\* delete, process returns Success with a payload that sets the cached id to
\* none.
C18_DeletionOrder == [][C18_Step]_vars

\* C18's case: on deleted hardware a lease was deleted, then the resource, and
\* process returned the Success that clears the id.
C18_Witness ==
    /\ bhw.deleted
    /\ bpc = "done"
    /\ bresult.kind = "success"
    /\ CallsOf(bcalls, "DELETE lease") # {}
    /\ LastCall(bcalls) = "DELETE host"
    /\ ResourceId(bdetails) = "5"
    /\ ResourceId(MergePayload(bdetails, bresult.payload)) = Null

\* The leases Blazar holds for the windows of the hardware.
WindowLeases == {l \in bleases : IsWindowLease(l, bhw)}

\* C19: leases removed before the resource. On deleted hardware, when process
\* is about to send the delete of the resource, Blazar holds no lease with the
\* prefix that reserves the hardware, and the invocation has created or
\* updated no lease, whatever windows were passed in.
C19_AsClaimed ==
    (bhw.deleted /\ bpc = "res_delete")
        => /\ WindowLeases = {}
           /\ CallsOf(bcalls, "POST lease") = {}
           /\ CallsOf(bcalls, "PUT lease") = {}

\* C20: a lease that cannot be removed. On deleted hardware, when a delete of
\* a lease was answered with an error, process has returned a Defer, it has
\* not raised, and it has sent no delete of the resource.
C20_AsClaimed ==
    (/\ bhw.deleted
     /\ bpc = "done"
     /\ \/ Answered({"DELETE lease"}, "409")
        \/ Answered({"DELETE lease"}, "500"))
        => /\ bresult.kind = "defer"
           /\ CallsOf(bcalls, "DELETE host") = {}

\* A request of the resource update is answered 404 in this step: it is
\* sent, Blazar has no resource of the cached id and answers as it stands.
C30_NotFound ==
    /\ bpc \in {"res_get", "res_put"}
    /\ Len(bcalls') > Len(bcalls)
    /\ bfaults' = bfaults
    /\ ~\E h \in bhosts : h.id = ResourceId(bdetails)

\* C30: a stale cached id. When the read or the write of the resource under
\* the cached id is answered 404, process returns a Defer whose payload sets
\* the cached id to none, having sent no lease request; the merge of that
\* payload leaves no cached id; and the invocation that follows the merge
\* starts on the create path, its first request being the POST of the
\* resource.
C30_Step ==
    /\ C30_NotFound
          => /\ bpc' = "done"
             /\ bresult'.kind = "defer"
             /\ "blazar_resource_id" \in DOMAIN bresult'.payload
             /\ bresult'.payload["blazar_resource_id"] = Null
             /\ ResourceId(MergePayload(bdetails, bresult'.payload)) = Null
             /\ LeaseCalls(bcalls') = {}
             /\ CallsOf(bcalls', "GET leases") = {}
    /\ (bpc = "done" /\ bround' = bround + 1 /\ bresult.kind = "defer"
          /\ bresult.reason = "Resource not found")
          => (ResourceId(bdetails') = Null /\ bpc' = "res_create")
    /\ (bprev.kind = "defer" /\ bprev.reason = "Resource not found"
          /\ bcalls = <<>> /\ bcalls' # <<>>)
          => bcalls'[1].call = "POST host"

C30_StaleCachedId == [][C30_Step]_vars

\* The invocation after a 404 on the cached id has sent its POST.
C30_Witness ==
    /\ bround > 1
    /\ bprev.kind = "defer"
    /\ bprev.reason = "Resource not found"
    /\ bprev.payload = [k \in {"blazar_resource_id"} |-> Null]
    /\ bcalls # <<>>
    /\ bcalls[1].call = "POST host"

\* The requests of the lease phase sent in this invocation.
LeasePhaseSent == {i \in 1..Len(bcalls) : bcalls[i].call \in LeasePhaseCalls}

\* C31: for a hardware that is not deleted the lease phase runs only after
\* the resource step of the same invocation returned Success. No lease is
\* listed, created, updated or deleted before that; and when process has
\* returned a Defer that the resource step made (any Defer but the one of
\* the lease phase), it has sent no request of the lease phase at all.
C31_LeasesAfterResource ==
    ~bhw.deleted
        => /\ LeasePhaseSent # {} => bresres.kind = "success"
           /\ (bpc = "done" /\ bresult.kind = "defer"
                 /\ bresult.reason
                       # "One or more availability window leases failed to update")
                 => (LeasePhaseSent = {} /\ bresres.kind # "success")

\* The create of a resource Blazar already holds was answered 409, the
\* resource was found and the Defer returned, with windows left untouched.
C31_Witness ==
    /\ bpc = "done"
    /\ ~bhw.deleted
    /\ bwindows # <<>>
    /\ bresult.kind = "defer"
    /\ "blazar_resource_id" \in DOMAIN bresult.payload
    /\ LastCall(bcalls) = "GET hosts"

\* Some lease create or update of this invocation was answered 404 or 409,
\* which _lease_create and _lease_update turn into a Defer.
SomeLeaseDeferred ==
    \/ Answered({"POST lease", "PUT lease"}, "404")
    \/ Answered({"POST lease", "PUT lease"}, "409")

\* C32: the aggregate defer rule. When the lease loops are through: if some
\* lease operation deferred, process returns a Defer whose payload is the
\* payload of the resource step's result, with the reason that leases failed
\* to update; if none did, on hardware that is not deleted the result of the
\* resource step is returned as it is.
C32_Step ==
    (LeaseLoopsDone /\ bpc' # bpc)
        => IF SomeLeaseDeferred
           THEN /\ bpc' = "done"
                /\ bresult' =
                      [kind |-> "defer", payload |-> bresres.payload,
                       reason |->
                          "One or more availability window leases failed to update"]
           ELSE ~bhw.deleted => (bpc' = "done" /\ bresult' = bresres)

C32_AggregateDefer == [][C32_Step]_vars

\* The resource was created in this invocation, a lease create was answered
\* 409, and the Defer returned carries the new resource id.
C32_Witness ==
    /\ bpc = "done"
    /\ CallsOf(bcalls, "POST host") # {}
    /\ Answered({"POST lease"}, "409")
    /\ bresult.kind = "defer"
    /\ bresult.reason = "One or more availability window leases failed to update"
    /\ ResourceId(bresult.payload) # Null

\* The leases Blazar holds that are this hardware's: the prefix in the name
\* and the hardware in the reservation.
LeasesOfHardware ==
    {l \in bleases : l.name[1] = AW_LEASE_PREFIX /\ l.reservations = bhw.uuid}

\* The windows a lease is named after.
WindowsOf(l) == {i \in 1..Len(bwindows) : l.name = <<AW_LEASE_PREFIX, bwindows[i].uuid>>}

\* C33: lease convergence. When process has returned Success on hardware
\* that is not deleted, after the lease phase, the leases of the hardware in
\* Blazar and the windows correspond one to one: each window has exactly
\* one lease named after it, with the window's start and end cut to the
\* minute, and each lease is named after exactly one window, no lease
\* without a window being left.
C33_LeaseConvergence ==
    (/\ bpc = "done"
     /\ ~bhw.deleted
     /\ bresult.kind = "success"
     /\ CallsOf(bcalls, "GET leases") # {})
        => /\ \A i \in 1..Len(bwindows) :
                 \E l \in LeasesOfHardware :
                    /\ WindowsOf(l) = {i}
                    /\ l.start_date = bwindows[i].start \div 2
                    /\ l.end_date = bwindows[i].end \div 2
                    /\ \A m \in LeasesOfHardware : i \in WindowsOf(m) => m = l
           /\ \A l \in LeasesOfHardware : Cardinality(WindowsOf(l)) = 1

\* Two windows: the lease of one kept, the lease of the other created, and a
\* lease of a window that is gone deleted.
C33_Witness ==
    /\ bpc = "done"
    /\ ~bhw.deleted
    /\ bresult.kind = "success"
    /\ Len(bwindows) = 2
    /\ CallsOf(bcalls, "POST lease") # {}
    /\ CallsOf(bcalls, "DELETE lease") # {}
    /\ Cardinality(LeasesOfHardware) = 2

\* C34: the lease frame. A lease whose name does not carry the prefix, or
\* whose reservation does not name this hardware, is left as it is by every
\* step of process, on live and on deleted hardware: it is still in Blazar,
\* unchanged, after the step.
C34_Step ==
    \A l \in bleases \ LeasesOfHardware : l \in bleases'

C34_LeaseFrame == [][C34_Step]_vars

\* Leases of another hardware and of a user are in Blazar beside a lease of
\* this hardware that the invocation has updated or deleted.
C34_Witness ==
    /\ bpc = "done"
    /\ \E l \in bleases : l.name[1] # AW_LEASE_PREFIX /\ l.reservations = bhw.uuid
    /\ \E l \in bleases : l.name[1] = AW_LEASE_PREFIX /\ l.reservations # bhw.uuid
    /\ CallsOf(bcalls, "PUT lease") \cup CallsOf(bcalls, "DELETE lease") # {}
    /\ bresult.kind = "success"

\* C35: deletion is idempotent. When process has returned on deleted
\* hardware without a cached id (the invocation after a Success that cleared
\* the id, or a first invocation that never had one) and every request of
\* the invocation was answered as Blazar stands, the result is Success and no
\* request that changes anything was sent; process has not raised.
C35_AsClaimed ==
    (/\ bpc = "done"
     /\ bhw.deleted
     /\ ResourceId(bdetails) = Null
     /\ bround = 1 \/ bprev.kind = "success"
     /\ bcalls # <<>>
     /\ ~\E n \in DOMAIN bfaults : bfaults[n].round = bround)
        => /\ bresult.kind = "success"
           /\ Mutating(bcalls) = {}

(***************************************************************************)
(* PART 3b. BlazarPhysicalHostWorker.import_existing.                      *)
(***************************************************************************)
\* Bound: the number of hosts Blazar lists.
MaxHosts == 2

\* A host as GET /os-hosts returns it.
RawHost(hostname, name) ==
    [hypervisor_hostname |-> hostname, node_name |-> name, node_type |-> "t1"]

RawHosts == {RawHost(h, n) : h \in {"h1", "h2"}, n \in {Null, "n1"}}

HostLists == UNION {[1..n -> RawHosts] : n \in 0..MaxHosts}

\* The item import_existing builds for a host.
ImportItem(host) ==
    [uuid |-> host.hypervisor_hostname, name |-> host.node_name,
     properties |->
        [node_type |-> host.node_type,
         placement |-> [node |-> Held(host, "placement.node"),
                        rack |-> Held(host, "placement.rack")]]]

XNoResult == [kind |-> None, value |-> <<>>]

XInit ==
    /\ xlisted \in HostLists
    /\ xhosts = <<>>
    /\ xidx = 0
    /\ xpc = "list"
    /\ xresult = XNoResult

XIdle ==
    /\ xlisted = <<>>
    /\ xhosts = <<>>
    /\ xidx = 0
    /\ xpc = "done"
    /\ xresult = XNoResult

\* existing_hosts = _call_blazar(context, "/os-hosts")["hosts"]: a status of
\* 400 or more raises.
ImportList ==
    /\ xpc = "list"
    /\ \E st \in {"200", "500"} :
          IF st = "200"
          THEN /\ xhosts' = xlisted
               /\ xidx' = 1
               /\ xpc' = "loop"
               /\ UNCHANGED xresult
          ELSE /\ xpc' = "done"
               /\ xresult' = [kind |-> "raise", value |-> <<"BlazarAPIError">>]
               /\ UNCHANGED <<xhosts, xidx>>
    /\ UNCHANGED xlisted
    /\ UNCHANGED notImport

\* One turn of `for host in existing_hosts`: the list iterator yields the
\* element at its position in the list as it is by now; the body reads
\* host["hypervisor_hostname"], a KeyError on an element without that key,
\* and appends the item to existing_hosts.
ImportTurn ==
    /\ xpc = "loop"
    /\ xidx <= Len(xhosts)
    /\ IF "hypervisor_hostname" \in DOMAIN xhosts[xidx]
       THEN /\ xhosts' = Append(xhosts, ImportItem(xhosts[xidx]))
            /\ xidx' = xidx + 1
            /\ UNCHANGED <<xpc, xresult>>
       ELSE /\ xpc' = "done"
            /\ xresult' = [kind |-> "raise", value |-> <<"KeyError">>]
            /\ UNCHANGED <<xhosts, xidx>>
    /\ UNCHANGED xlisted
    /\ UNCHANGED notImport

\* The iterator is past the end of the list: return existing_hosts.
ImportReturn ==
    /\ xpc = "loop"
    /\ xidx > Len(xhosts)
    /\ xpc' = "done"
    /\ xresult' = [kind |-> "return", value |-> xhosts]
    /\ UNCHANGED <<xlisted, xhosts, xidx>>
    /\ UNCHANGED notImport

XNext == ImportList \/ ImportTurn \/ ImportReturn

\* C23: import_existing ends and yields a finite sequence. Whenever it has
\* ended after Blazar listed its hosts, it has returned, and what it returned
\* is one {uuid, name, properties} item for every host listed, in their order.
C23_AsClaimed ==
    (xpc = "done" /\ xresult.kind # None /\ xresult.value # <<"BlazarAPIError">>)
        => /\ xresult.kind = "return"
           /\ Len(xresult.value) = Len(xlisted)
           /\ \A i \in 1..Len(xlisted) : xresult.value[i] = ImportItem(xlisted[i])

(***************************************************************************)
(* PART 4.  Tunnel integration: doni/driver/worker/tunelo.py.              *)
(* process is one call with no waiting in it and is modelled as one step;  *)
(* the Manager's merge of its payload is the step after it.                *)
(***************************************************************************)
ChannelNames == {"mgmt", "user"}

\* The order in which hardware.properties["channels"] is gone through.
ChannelOrder == <<"mgmt", "user">>

PublicKeys == {"k1", "k2"}

ChannelProps == [channel_type : {"wireguard"}, public_key : PublicKeys]

\* The uuids Tunelo gives to the channels it creates, in the order of creation.
ChannelUuids == <<"c1", "c2", "c3", "c4", "c5", "c6", "c7", "c8", "c9", "c10">>

\* A channel as Tunelo holds and lists it: the public key is kept under
\* "properties", the type beside it.
Channel(u, type, key) ==
    [uuid |-> u, channel_type |-> type, properties |-> [public_key |-> key]]

\* A channel of the project that this hardware's Task never created.
ForeignChannel == Channel("c0", "wireguard", "k0")

\* dict.get(key, default) and dict.get(key).
DictGet(d, key, default) == IF key \in DOMAIN d THEN d[key] ELSE default

\* _differs(chan_a, chan_b): some of channel_type, public_key is not the same
\* in both.
ChannelDiffers(chan_a, chan_b) ==
    \E key \in {"channel_type", "public_key"} :
        DictGet(chan_a, key, Null) # DictGet(chan_b, key, Null)

Request(method, target) == [method |-> method, target |-> target]

RECURSIVE ChannelLoop(_, _, _, _, _)
\* for channel_name, channel_props in hardware.properties["channels"].items(),
\* over the names left: a recorded channel that does not differ is passed by,
\* one that differs is deleted, and in every other case a channel is created
\* and its uuid put into the payload. A recorded uuid that Tunelo did not list
\* raises KeyError.
ChannelLoop(names, hw, channel_state, existing, acc) ==
    IF names = <<>> \/ acc.raised # None
    THEN acc
    ELSE
      LET name == Head(names)
          channel_uuid == DictGet(channel_state, name, Null)
          listed == {c \in existing : c.uuid = channel_uuid}
          new == ChannelUuids[acc.issued + 1]
          create(a) ==
              [a EXCEPT !.channels = @ \cup {Channel(new, hw[name].channel_type,
                                                     hw[name].public_key)},
                        !.sent = @ \cup {Request("POST", name)},
                        !.payload = MergePayload(@, [k \in {name} |-> new]),
                        !.issued = @ + 1]
      IN ChannelLoop(Tail(names), hw, channel_state, existing,
           IF name \notin DOMAIN hw
           THEN acc
           ELSE IF channel_uuid = Null
           THEN create(acc)
           ELSE IF listed = {}
           THEN [acc EXCEPT !.raised = "KeyError"]
           ELSE IF ~ChannelDiffers(hw[name], (CHOOSE c \in listed : TRUE).properties)
           THEN acc
           ELSE create([acc EXCEPT
                          !.channels = {c \in @ : c.uuid # channel_uuid},
                          !.sent = @ \cup {Request("DELETE", channel_uuid)}]))

\* The call of the dangling loop passes the path where the requestor takes the
\* context: it either fails on its arguments or reaches Tunelo.
DanglingDeleteOutcomes == {"raises", "deletes"}

TNoResult == [kind |-> None, payload |-> EmptyMap]

TIdle ==
    /\ thw = EmptyMap
    /\ tchannels = {}
    /\ tdetails = EmptyMap
    /\ tsent = {}
    /\ tcreated = EmptyMap
    /\ tresult = TNoResult
    /\ tpc = "returned"
    /\ tround = 0

\* A new Task: no state_details yet. Tunelo holds nothing or a channel of
\* somebody else.
TInit ==
    /\ thw \in UNION {[ns -> ChannelProps] : ns \in SUBSET ChannelNames}
    /\ tchannels \in {{}, {ForeignChannel}}
    /\ tdetails = EmptyMap
    /\ tsent = {}
    /\ tcreated = EmptyMap
    /\ tresult = TNoResult
    /\ tpc = "idle"
    /\ tround = 0

\* TuneloWorker.process.
TProcess ==
    /\ tpc = "idle"
    /\ tround < MaxRounds
    /\ \E o \in DanglingDeleteOutcomes :
         LET channel_state == DictGet(tdetails, "channels", EmptyMap)
             existing == tchannels
             dangling == {c.uuid : c \in existing} \ DOMAIN channel_state
             loop == ChannelLoop(ChannelOrder, thw, channel_state, existing,
                        [channels |-> tchannels,
                         sent |-> {Request("GET", "channels")},
                         payload |-> EmptyMap, raised |-> None,
                         issued |-> Cardinality(ChannelNames) * tround])
             deletes == loop.raised = None /\ o = "deletes"
         IN /\ tchannels' = IF deletes
                            THEN {c \in loop.channels : c.uuid \notin dangling}
                            ELSE loop.channels
            /\ tsent' = IF deletes
                        THEN loop.sent \cup {Request("DELETE", u) : u \in dangling}
                        ELSE loop.sent
            /\ tresult' = IF loop.raised # None
                          THEN [kind |-> "raise", payload |-> EmptyMap]
                          ELSE IF dangling # {} /\ o = "raises"
                          THEN [kind |-> "raise", payload |-> EmptyMap]
                          ELSE [kind |-> "success", payload |-> loop.payload]
            /\ tcreated' = MergePayload(tcreated, loop.payload)
    /\ tround' = tround + 1
    /\ tpc' = "returned"
    /\ UNCHANGED <<thw, tdetails>>
    /\ UNCHANGED notTunelo

\* The Manager takes the outcome in: the payload of a Success is merged into
\* the Task's state_details, an error leaves them as they are.
TPersist ==
    /\ tpc = "returned"
    /\ tresult.kind # None
    /\ tdetails' = IF tresult.kind = "success"
                   THEN MergePayload(tdetails, tresult.payload)
                   ELSE tdetails
    /\ tpc' = "idle"
    /\ UNCHANGED <<thw, tchannels, tsent, tcreated, tresult, tround>>
    /\ UNCHANGED notTunelo

TNext == TProcess \/ TPersist

\* C38: a channel that an earlier call created for a name still desired, that
\* Tunelo holds with the desired properties and that the Task's state_details
\* record for the name, is still held after a later call, and that call sends
\* no create for the name; and a call deletes only channels that the
\* state_details do not record.
C38_Step ==
    (tpc = "idle" /\ tpc' = "returned")
        => /\ \A n \in DOMAIN thw :
                 (/\ n \in DOMAIN tcreated
                  /\ DictGet(tdetails, n, Null) = tcreated[n]
                  /\ Channel(tcreated[n], thw[n].channel_type, thw[n].public_key)
                        \in tchannels)
                     => /\ Channel(tcreated[n], thw[n].channel_type,
                                   thw[n].public_key) \in tchannels'
                        /\ Request("POST", n) \notin tsent'
           /\ \A r \in tsent' :
                 r.method = "DELETE"
                     => \A n \in DOMAIN thw : DictGet(tdetails, n, Null) # r.target

C38_AsClaimed == [][C38_Step]_vars

(***************************************************************************)
(* PART 5.  Cluster-node integration: doni/driver/worker/k8s.py.           *)
(* process makes its calls one after the other without waiting and keeps   *)
(* nothing between invocations but what it saves on the hardware; it is    *)
(* modelled as one step.                                                   *)
(***************************************************************************)
\* 'k8s_bootstrap_token' not in hardware.properties.
Absent == "absent"

\* token_id, token_secret = bootstrap_token.split('.')
TokenParts ==
    [t \in {"a.x", "g1.s", "g2.s", "g3.s", "g4.s", "g5.s", "g6.s"} |->
        CASE t = "a.x" -> <<"a", "x">>
          [] t = "g1.s" -> <<"g1", "s">>
          [] t = "g2.s" -> <<"g2", "s">>
          [] t = "g3.s" -> <<"g3", "s">>
          [] t = "g4.s" -> <<"g4", "s">>
          [] t = "g5.s" -> <<"g5", "s">>
          [] OTHER -> <<"g6", "s">>]

\* What generate_k8s_bootstrap_token hands out, call after call.
GeneratedTokens == <<"g1.s", "g2.s", "g3.s", "g4.s", "g5.s", "g6.s">>

\* CONF.k8s.expected_labels, already expanded from "key1=value1|key2=value2":
\* labels for machine m1, none for machine m2.
ExpectedLabels(idx) ==
    IF idx = "m1" THEN [k \in {"chi.edge/class"} |-> "edge"] ELSE EmptyMap

\* The cluster API call that is answered with a server error in an invocation,
\* if any.
KFaults == {None, "read_secret", "create_secret", "delete_secret", "patch_node"}

KCall(op, status) == [op |-> op, status |-> status]

\* 'k8s_bootstrap_token' not in hardware.properties or the property is "".
TokenMissing(hw) == hw.k8s_bootstrap_token \in {Absent, ""}

\* _check_secret_exists: True when the secret was read, False on a 404, and
\* nothing at all (None) on any other error of the API.
CheckSecretExists(status) ==
    CASE status = 200 -> "True"
      [] status = 404 -> "False"
      [] OTHER -> None

\* if secret_exists: ... else: create
Truthy(v) == v = "True"

KNoResult == [kind |-> None, payload |-> EmptyMap]

\* The cluster without a node of the hardware's name, and with one.
KNoNode == [exists |-> FALSE, labels |-> EmptyMap]

KNode(labels) == [exists |-> TRUE, labels |-> labels]

KIdle ==
    /\ khw = [deleted |-> FALSE, k8s_bootstrap_token |-> Absent,
              machine_name |-> Null, local_egress |-> Null]
    /\ ksecrets = {}
    /\ knode = KNoNode
    /\ kcalls = <<>>
    /\ kissued = 0
    /\ kresult = KNoResult
    /\ kround = MaxRounds

KInit ==
    /\ khw \in [deleted : BOOLEAN, k8s_bootstrap_token : {Absent, "", "a.x"},
                machine_name : {Null, "m1", "m2"}, local_egress : {Null, "deny"}]
    /\ ksecrets \in {{}, {"a"}}
    /\ knode \in {KNoNode, KNode(EmptyMap)}
    /\ kcalls = <<>>
    /\ kissued = 0
    /\ kresult = KNoResult
    /\ kround = 0

\* K8sWorker.process.
KProcess ==
    /\ kround < MaxRounds
    /\ \E fault \in KFaults :
         LET issue == TokenMissing(khw)
             new_token == GeneratedTokens[kissued + 1]
             hw == IF issue THEN [khw EXCEPT !.k8s_bootstrap_token = new_token]
                   ELSE khw
             token_id == TokenParts[hw.k8s_bootstrap_token][1]
             payload0 ==
                 MergePayload(
                   [k \in {"deleted_token_secrets", "created_token_secrets"} |-> 0],
                   IF issue THEN [k \in {"issued_new_token"} |-> new_token]
                   ELSE EmptyMap)
             held == token_id \in ksecrets
             deleteStatus == IF fault = "delete_secret" THEN 500
                             ELSE IF held THEN 200 ELSE 404
             readStatus == IF fault = "read_secret" THEN 500
                           ELSE IF held THEN 200 ELSE 404
             secret_exists == CheckSecretExists(readStatus)
             createStatus == IF fault = "create_secret" THEN 500
                             ELSE IF held THEN 409 ELSE 201
             secretCalls ==
                 <<KCall("read_secret", readStatus)>>
                   \o (IF Truthy(secret_exists) THEN <<>>
                       ELSE <<KCall("create_secret", createStatus)>>)
             secrets == IF ~Truthy(secret_exists) /\ createStatus = 201
                        THEN ksecrets \cup {token_id} ELSE ksecrets
             payload1 ==
                 [payload0 EXCEPT !["created_token_secrets"] =
                     IF ~Truthy(secret_exists) /\ createStatus = 201 THEN 1 ELSE 0]
             idx == hw.machine_name
             labels ==
                 MergePayload(ExpectedLabels(idx),
                              IF hw.local_egress = "deny"
                              THEN [k \in {"chi.edge/local_egress"} |-> "deny"]
                              ELSE EmptyMap)
             patchStatus == IF fault = "patch_node" THEN 500
                            ELSE IF ~knode.exists THEN 404 ELSE 200
         IN /\ khw' = hw
            /\ kissued' = IF issue THEN kissued + 1 ELSE kissued
            /\ IF hw.deleted
               THEN /\ kcalls' = <<KCall("delete_secret", deleteStatus)>>
                    /\ ksecrets' = IF deleteStatus = 200
                                   THEN ksecrets \ {token_id} ELSE ksecrets
                    /\ kresult' = [kind |-> "success",
                                   payload |->
                                     [payload0 EXCEPT !["deleted_token_secrets"] =
                                         IF deleteStatus = 200 THEN 1 ELSE 0]]
                    /\ UNCHANGED knode
               ELSE IF idx = Null
               THEN /\ kcalls' = secretCalls
                    /\ ksecrets' = secrets
                    /\ kresult' = [kind |-> "raise", payload |-> EmptyMap]
                    /\ UNCHANGED knode
               ELSE IF DOMAIN labels = {}
               THEN /\ kcalls' = secretCalls
                    /\ ksecrets' = secrets
                    /\ kresult' = [kind |-> "success",
                                   payload |->
                                     MergePayload(payload1,
                                                  [k \in {"num_labels"} |-> 0])]
                    /\ UNCHANGED knode
               ELSE /\ kcalls' = secretCalls \o <<KCall("patch_node", patchStatus)>>
                    /\ ksecrets' = secrets
                    /\ knode' = IF patchStatus = 200
                                THEN KNode(MergePayload(knode.labels, labels))
                                ELSE knode
                    /\ kresult' =
                         CASE patchStatus = 404 ->
                                [kind |-> "defer", payload |-> EmptyMap]
                           [] patchStatus = 200 ->
                                [kind |-> "success",
                                 payload |->
                                   MergePayload(payload1,
                                      [k \in {"num_labels"} |->
                                          Cardinality(DOMAIN labels)])]
                           [] OTHER -> [kind |-> "raise", payload |-> EmptyMap]
    /\ kround' = kround + 1
    /\ UNCHANGED notK8s

\* The hardware is deleted from the registry.
KDeleteHardware ==
    /\ ~khw.deleted
    /\ kround > 0
    /\ khw' = [khw EXCEPT !.deleted = TRUE]
    /\ UNCHANGED <<ksecrets, knode, kcalls, kissued, kresult, kround>>
    /\ UNCHANGED notK8s

\* The device joins the cluster as a node.
KNodeJoins ==
    /\ ~knode.exists
    /\ kround > 0
    /\ knode' = KNode(EmptyMap)
    /\ UNCHANGED <<khw, ksecrets, kcalls, kissued, kresult, kround>>
    /\ UNCHANGED notK8s

KNext == KProcess \/ KDeleteHardware \/ KNodeJoins

KCallOps == {kcalls[i].op : i \in 1..Len(kcalls)}

\* C39: in every invocation a token is issued, and written to the hardware,
\* only if the property was absent or empty, and never a second time; a create
\* of the bootstrap secret is sent only after the existence check was answered
\* that the secret is missing; and for deleted hardware neither a create of
\* the secret nor a patch of the node is sent.
C39_Step ==
    (kround' = kround + 1)
        => /\ (kissued' # kissued \/ khw' # khw)
                 => (khw.k8s_bootstrap_token \in {Absent, ""} /\ kissued = 0)
           /\ (\E i \in 1..Len(kcalls') : kcalls'[i].op = "create_secret")
                 => kcalls'[1] = KCall("read_secret", 404)
           /\ khw.deleted
                 => \A i \in 1..Len(kcalls') :
                        kcalls'[i].op \notin {"create_secret", "patch_node"}

C39_AsClaimed == [][C39_Step]_vars

(***************************************************************************)
(* PART 6.  The import command: doni/cmd/import.py.                        *)
(* The items are what the import_existing of the enabled workers yield, in *)
(* the order in which the command comes by them.                           *)
(***************************************************************************)
MaxItems == 3

Item(uuid, name, properties) ==
    [uuid |-> uuid, name |-> name, properties |-> properties]

\* Two items for hardware u1, as two workers report it, one for hardware u2
\* and two whose uuid could not be determined.
ItemPool ==
    {Item("u1", "n1", [k \in {"node_type"} |-> "compute"]),
     Item("u1", "n1", [k \in {"rack"} |-> "r1"]),
     Item("u2", "n2", [k \in {"node_type"} |-> "storage"]),
     Item(Null, "x1", [k \in {"node_type"} |-> "gpu"]),
     Item(Null, "x2", [k \in {"rack"} |-> "r2"])}

ItemLists ==
    {q \in UNION {[1..n -> ItemPool] : n \in 0..MaxItems} :
        \A i, j \in 1..Len(q) : q[i] = q[j] => i = j}

HardwareType == "baremetal"

CNoResult == [kind |-> None]

CIdle ==
    /\ citems = <<>>
    /\ cdry = FALSE
    /\ cexisting = <<>>
    /\ cleft = <<>>
    /\ cdb = {}
    /\ cpc = "done"
    /\ cresult = CNoResult

\* existing = defaultdict(dict): nothing gathered yet, the database empty.
CInit ==
    /\ citems \in ItemLists
    /\ cdry \in BOOLEAN
    /\ cexisting = <<>>
    /\ cleft = citems
    /\ cdb = {}
    /\ cpc = "gather"
    /\ cresult = CNoResult

\* exist_hw = existing[item["uuid"]] and the assignments to it: the entry of
\* the item's uuid is made if there is none, its name and hardware_type are
\* set and the item's properties are written over its properties. The
\* dictionary is kept as the list of its entries in the order of insertion.
Gathered(existing, item) ==
    LET at == {i \in 1..Len(existing) : existing[i].uuid = item.uuid}
        entry(old) == [uuid |-> item.uuid, name |-> item.name,
                       hardware_type |-> HardwareType,
                       properties |-> MergePayload(old, item.properties)]
    IN IF at = {}
       THEN Append(existing, entry(EmptyMap))
       ELSE [i \in 1..Len(existing) |->
               IF i \in at THEN entry(existing[i].properties) ELSE existing[i]]

RECURSIVE RegisterLoop(_, _, _)
\* for uuid, exist_hw in existing.items(): the Hardware object is built, which
\* fails on a uuid of None since the field is not nullable, and is created in
\* the database unless dry_run is set.
RegisterLoop(entries, dry, db) ==
    IF entries = <<>>
    THEN [db |-> db, result |-> [kind |-> "return"]]
    ELSE IF Head(entries).uuid = Null
    THEN [db |-> db, result |-> [kind |-> "raise"]]
    ELSE RegisterLoop(Tail(entries), dry,
                      IF dry THEN db ELSE db \cup {Head(entries)})

\* One turn of the loop over the workers' items.
CGather ==
    /\ cpc = "gather"
    /\ cleft # <<>>
    /\ cexisting' = Gathered(cexisting, Head(cleft))
    /\ cleft' = Tail(cleft)
    /\ UNCHANGED <<citems, cdry, cdb, cpc, cresult>>
    /\ UNCHANGED notCommand

\* The loop over existing.items().
CRegister ==
    /\ cpc = "gather"
    /\ cleft = <<>>
    /\ LET out == RegisterLoop(cexisting, cdry, cdb)
       IN /\ cdb' = out.db
          /\ cresult' = out.result
    /\ cpc' = "done"
    /\ UNCHANGED <<citems, cdry, cexisting, cleft>>
    /\ UNCHANGED notCommand

CNext == CGather \/ CRegister

\* The items reported with uuid u, in the order of the report.
ItemsOf(u) == {i \in 1..Len(citems) : citems[i].uuid = u}

\* The properties of the items of uuid u united.
RECURSIVE United(_, _)
United(q, u) ==
    IF q = <<>> THEN EmptyMap
    ELSE LET front == United(SubSeq(q, 1, Len(q) - 1), u)
             last == q[Len(q)]
         IN IF last.uuid = u THEN MergePayload(front, last.properties) ELSE front

\* C40: when the command has ended, in dry-run mode the database holds no
\* Hardware record, and otherwise it holds one record for every uuid that
\* items were reported with, carrying the united properties of these items,
\* and one record for every item reported without a uuid.
C40_AsClaimed ==
    (cpc = "done" /\ cresult.kind # None)
        => IF cdry
           THEN cdb = {}
           ELSE /\ \A u \in {"u1", "u2"} :
                      ItemsOf(u) # {}
                          => \E h \in cdb :
                                /\ h.uuid = u
                                /\ h.properties = United(citems, u)
                                /\ \A g \in cdb : g.uuid = u => g = h
                /\ Cardinality(cdb)
                      = Cardinality({u \in {"u1", "u2"} : ItemsOf(u) # {}})
                          + Cardinality(ItemsOf(Null))

(***************************************************************************)
(* The specifications.                                                     *)
(***************************************************************************)
\* Each specification starts its own machine and holds the others at rest.
InitManager ==
    MInit /\ IIdle /\ BIdle /\ PIdle /\ XIdle /\ TIdle /\ KIdle /\ CIdle

InitIronic ==
    MInit /\ IInit /\ BIdle /\ PIdle /\ XIdle /\ TIdle /\ KIdle /\ CIdle

InitBlazar ==
    MInit /\ IIdle /\ BInit /\ PIdle /\ XIdle /\ TIdle /\ KIdle /\ CIdle

InitPatch ==
    MInit /\ IIdle /\ BIdle /\ PInit /\ XIdle /\ TIdle /\ KIdle /\ CIdle

InitImport ==
    MInit /\ IIdle /\ BIdle /\ PIdle /\ XInit /\ TIdle /\ KIdle /\ CIdle

SpecManager == InitManager /\ [][MNext]_vars

SpecRace == InitManager /\ [][RaceNext]_vars

InitDispatch ==
    MDispatchInit /\ IIdle /\ BIdle /\ PIdle /\ XIdle /\ TIdle /\ KIdle /\ CIdle

SpecDispatch == InitDispatch /\ [][DispatchNext]_vars

InitRetry ==
    MRetryInit /\ IIdle /\ BIdle /\ PIdle /\ XIdle /\ TIdle /\ KIdle /\ CIdle

\* The Manager keeps running: a cycle that can start does start, and a Task of
\* the batch is skipped, begun and finished. Nothing is assumed of the clock
\* or of the configuration.
SpecDispatchFair ==
    /\ InitRetry
    /\ [][DispatchNext]_vars
    /\ WF_vars(StartCycle("m1"))
    /\ WF_vars(SkipTask("m1"))
    /\ WF_vars(BeginTask("m1"))
    /\ WF_vars(FinishTask("m1"))

SpecIronic == InitIronic /\ [][INext]_vars

SpecBlazar == InitBlazar /\ [][BNext]_vars

SpecPatch == InitPatch /\ [][PNext]_vars

SpecImport == InitImport /\ [][XNext]_vars

InitTunelo ==
    MInit /\ IIdle /\ BIdle /\ PIdle /\ XIdle /\ TInit /\ KIdle /\ CIdle

SpecTunelo == InitTunelo /\ [][TNext]_vars

InitK8s ==
    MInit /\ IIdle /\ BIdle /\ PIdle /\ XIdle /\ TIdle /\ KInit /\ CIdle

SpecK8s == InitK8s /\ [][KNext]_vars

InitCommand ==
    MInit /\ IIdle /\ BIdle /\ PIdle /\ XIdle /\ TIdle /\ KIdle /\ CInit

SpecCommand == InitCommand /\ [][CNext]_vars
====
